---------------------------- MODULE Spec2Model ----------------------------
(***************************************************************************)
(* A model of the gammaverse toolbox: the PDF watermark remover            *)
(* (remove_gamma_logo_pdf.py), the PPTX watermark remover                   *)
(* (remove_gamma_logo.py), the Streamlit wrapper around them, and the      *)
(* PDF unlocker, metadata scrubber, job exporter and image downloader.     *)
(*                                                                         *)
(* Indices i, j, k, start, end are the 0-based Python indices of the      *)
(* source; the operator at Python index x is ops[x + 1].                    *)
(***************************************************************************)
EXTENDS Integers, Sequences, FiniteSets, TLC

VARIABLES
    \* ---- strip_draw_commands (remove_gamma_logo_pdf.py:80-137)
    contents,     \* the page's /Contents: NoContents or its operator list
    contents0,    \* history: /Contents as it was when the call started
    targets,      \* the keys of the targets dict (resource names)
    ops,          \* content.operations, mutated in place
    i, j, k,      \* loop indices
    depth,        \* nesting depth of the bracket walks
    start, end,   \* the span to delete
    removed,      \* spans removed
    deleted,      \* history: the <<start, end>> of every del executed
    reassigned,   \* history: page["/Contents"] = content was executed
    spc           \* position inside strip_draw_commands

VARIABLES
    \* ---- process_pdf (remove_gamma_logo_pdf.py:140-185)
    pages,        \* reader.pages: the page objects, mutated in place
    pages0,       \* history: the pages as read
    images,       \* the image objects of the document, by object identity
    images0,      \* history: the image objects as read
    gamma_targets,        \* find_gamma_xobjects(page): name -> image object
    pidx,                 \* the page the for loop is at (1-based)
    annotations_removed,
    images_scrubbed,
    writerPages,  \* the pages added to the PdfWriter
    ret,          \* the value returned (NoValue until the function returns)
    exc,          \* an exception is propagating
    disk,         \* the files: orig (the path given), dest, tmp
    ppc,          \* position inside process_pdf
    \* ---- scrub_gamma_images called on its own
    scrubCalls,   \* how many times it was applied to gamma_targets
    afterFirst    \* history: the image objects after the first application

stripVars == <<contents, contents0, targets, ops, i, j, k, depth, start, end,
               removed, deleted, reassigned, spc>>

pdfVars == <<pages, pages0, images, images0, gamma_targets, pidx,
             annotations_removed, images_scrubbed, writerPages, ret, exc,
             disk, ppc>>

scrubVars == <<scrubCalls, afterFirst>>

VARIABLES
    \* ---- remove_gamma_logo.py main (132-173), streamlit_app.py process_pptx
    caller,        \* "main" or "streamlit"
    archive,       \* contents: the layouts of the loaded archive, in memory
    archive0,      \* history: the archive as loaded
    lidx,          \* the layout the for loop is at (1-based)
    total_removed,
    stripResults,  \* history: what strip_gamma_from_layout returned, per layout
    xpc            \* position inside main / process_pptx / write_archive

pptxVars == <<caller, archive, archive0, lidx, total_removed, stripResults, xpc>>

VARIABLES
    \* ---- unlock_pdf (unlock_pdf.py:6-33)
    uin,           \* the file at input_pdf_path
    upassword,     \* the password argument
    uwriter,       \* the pages added to the PdfWriter
    uout,          \* the file at output_pdf_path
    uopened,       \* history: open(output_pdf_path, "wb") was executed
    uraised,       \* the exception raised inside the try ("none" if none)
    uret,          \* the value returned
    upc            \* position inside unlock_pdf

unlockVars == <<uin, upassword, uwriter, uout, uopened, uraised, uret, upc>>

VARIABLES
    \* ---- nuke_pptx_metadata, _scrub_xml (metadata_nuke.py:44-125)
    nin,           \* the archive at input_path
    ndir,          \* the files of the temporary directory
    nfailed,       \* history: the parts whose _scrub_xml printed its warning
    nout,          \* the archive at output_path
    nret,          \* the value returned ("none" until the function returns)
    npc            \* position inside nuke_pptx_metadata

nukeVars == <<nin, ndir, nfailed, nout, nret, npc>>

VARIABLES
    \* ---- fetch_applied_jobs (export_iimjobs_applied.py:134-158)
    fapi,          \* what the API serves: the batch of jobs of each page
    fpage,         \* page
    fjobs,         \* jobs
    frequested,    \* history: the page numbers requested, in order
    fpc            \* position inside fetch_applied_jobs

fetchVars == <<fapi, fpage, fjobs, frequested, fpc>>

VARIABLES
    \* ---- main of the two removers (remove_gamma_logo_pdf.py:188-201,
    \*      remove_gamma_logo.py:132-173)
    mtool,         \* which remover runs: "pdf" or "pptx"
    menv,          \* os.getenv(ENV_VAR)
    mexists,       \* whether a file is at the path the variable names
    mio,           \* history: the reads and writes of the target file
    mexit,         \* the exit status (NoValue while running)
    mpc            \* position inside main

mainVars == <<mtool, menv, mexists, mio, mexit, mpc>>

VARIABLES
    \* ---- export_applied_jobs (export_iimjobs_applied.py:240-263)
    eemail,        \* email
    epassword,     \* password
    edriver,       \* driver: "None", "running" or "quit"
    equits,        \* history: calls of driver.quit() made so far
    eio,           \* history: browser, network and file operations begun
    eresult,       \* "none", "returned", or the exception that left the call
    epc            \* position inside export_applied_jobs

exportVars == <<eemail, epassword, edriver, equits, eio, eresult, epc>>

VARIABLES
    \* ---- download_and_create_pdf (sakamoto_downloader.py:7-62)
    dtags,         \* the img tags of the page at url, in document order
    dimage_urls,   \* image_urls: the tag and src of each image to download
    didx,          \* the image the for loop is at (1-based)
    dimages,       \* images
    drequests,     \* history: the requests sent, in order
    dpagefailed,   \* history: the page fetch failed
    dpdf,          \* the file at output_pdf_name
    dresult,       \* "none", "returned" or "raised"
    dpc            \* position inside download_and_create_pdf

downloadVars == <<dtags, dimage_urls, didx, dimages, drequests, dpagefailed,
                  dpdf, dresult, dpc>>

toolVars == <<unlockVars, nukeVars, fetchVars, mainVars, exportVars,
              downloadVars>>

\* what the steps of each of these tools leave alone
removerVars == <<stripVars, pdfVars, scrubVars, pptxVars>>
unlockRest ==
    <<removerVars, nukeVars, fetchVars, mainVars, exportVars, downloadVars>>
nukeRest ==
    <<removerVars, unlockVars, fetchVars, mainVars, exportVars, downloadVars>>
fetchRest ==
    <<removerVars, unlockVars, nukeVars, mainVars, exportVars, downloadVars>>
mainRest ==
    <<removerVars, unlockVars, nukeVars, fetchVars, exportVars, downloadVars>>
exportRest ==
    <<removerVars, unlockVars, nukeVars, fetchVars, mainVars, downloadVars>>
downloadRest ==
    <<removerVars, unlockVars, nukeVars, fetchVars, mainVars, exportVars>>

vars == <<stripVars, pdfVars, scrubVars, pptxVars, toolVars>>

-----------------------------------------------------------------------------
(* Bounds *)

MaxOps == 5          \* longest operator list drawn as input
MaxPages == 2        \* most pages of a document
MaxScrubCalls == 2   \* applications of scrub_gamma_images to one target set
MaxLayouts == 2      \* most slide layouts of an archive
MaxUnlockPages == 3  \* most pages of a PDF given to unlock_pdf
MaxApiPages == 3     \* most pages of applied jobs the API holds
MaxAnnots == 3       \* longest annotation list drawn freely as input
MaxShapes == 2       \* most top-level shapes of a freely drawn layout
MaxImgTags == 3      \* most img tags of a downloaded page

-----------------------------------------------------------------------------
(* Content-stream operators: (operands, operator) pairs *)

\* page.get("/Contents"): absent, or a stream that decodes to an operator list
NoContents == [present |-> FALSE, operations |-> <<>>]
Stream(s) == [present |-> TRUE, operations |-> s]

Names == {"/Im1", "/Im2"}

Op(operands, operator) == [operands |-> operands, operator |-> operator]

OpSave == Op(<<>>, "q")
OpRestore == Op(<<>>, "Q")
OpRect == Op(<<>>, "re")
OpDo(n) == Op(<<n>>, "Do")
OpDoBare == Op(<<>>, "Do")

Operators == {OpSave, OpRestore, OpRect, OpDoBare} \cup {OpDo(n) : n \in Names}

OpLists == UNION {[1..n -> Operators] : n \in 0..MaxOps}

TargetSets == {{}, {"/Im1"}, Names}

-----------------------------------------------------------------------------
(* strip_draw_commands *)

\* a hit test that forgets the target names: every Do with an operand is a hit
IsTargetDoAnyName(op, tn) ==
    /\ op.operator = "Do"
    /\ op.operands # <<>>

\* lines 95-99: the operator is a Do whose first operand is a target name
IsTargetDo(op, tn) ==
    /\ op.operator = "Do"
    /\ op.operands # <<>>
    /\ op.operands[1] \in tn

\* lines 105-106, 120-121: the bracket that deepens the walk
BackDeepens(op) == op.operator = "Q"
FwdDeepens(op) == op.operator = "q"

\* a backward walk that stops at the first q, whatever the depth
BackStopsAnyDepth(op, d) == op.operator = "q"

\* lines 107-110: the backward walk stops at an unmatched q
BackStops(op, d) == op.operator = "q" /\ d = 0

\* a forward walk that stops at the first Q, whatever the depth
FwdStopsAnyDepth(op, d) == op.operator = "Q"

\* lines 122-124: the forward walk stops at an unmatched Q
FwdStops(op, d) == op.operator = "Q" /\ d = 0

\* line 119: end follows k at every step of the forward walk
FwdEnd(e, kk) == kk

\* a del that removes nothing
DelSliceNothing(s, a, b) == s

\* line 128: del ops[start : end + 1]
DelSlice(s, a, b) == SubSeq(s, 1, a) \o SubSeq(s, b + 2, Len(s))

\* lines 129-130: removed += 1; continue (i is left where it was)
RemovedAfterDel(r) == r + 1
IndexAfterDel(ii, a) == ii

\* lines 81-90: the early returns, then the decoded operator list
StripEnter ==
    /\ spc = "entry"
    /\ IF targets = {} \/ ~contents.present
       THEN /\ spc' = "done"
            /\ removed' = 0
            /\ UNCHANGED <<ops, i>>
       ELSE /\ spc' = "scan"
            /\ ops' = contents.operations
            /\ i' = 0
            /\ removed' = 0
    /\ UNCHANGED <<contents, contents0, targets, j, k, depth, start, end,
                   deleted, reassigned>>

\* lines 93-99, 131: an operator that is no hit; i += 1
ScanAdvance ==
    /\ spc = "scan"
    /\ i < Len(ops)
    /\ ~IsTargetDo(ops[i + 1], targets)
    /\ i' = i + 1
    /\ UNCHANGED <<contents, contents0, targets, ops, j, k, depth, start, end,
                   removed, deleted, reassigned, spc>>

\* lines 93-102: a hit; the backward walk is set up
ScanHit ==
    /\ spc = "scan"
    /\ i < Len(ops)
    /\ IsTargetDo(ops[i + 1], targets)
    /\ start' = i
    /\ depth' = 0
    /\ j' = i - 1
    /\ spc' = "back"
    /\ UNCHANGED <<contents, contents0, targets, ops, i, k, end, removed,
                   deleted, reassigned>>

\* lines 103-116: one iteration of the backward walk; leaving it sets up
\* the forward walk
BackStep ==
    /\ spc = "back"
    /\ IF j >= 0 /\ ~BackStops(ops[j + 1], depth)
       THEN /\ depth' = IF BackDeepens(ops[j + 1]) THEN depth + 1
                        ELSE IF ops[j + 1].operator = "q" THEN depth - 1
                        ELSE depth
            /\ j' = j - 1
            /\ UNCHANGED <<start, end, k, spc>>
       ELSE /\ start' = IF j >= 0 THEN j ELSE start
            /\ end' = i
            /\ depth' = 0
            /\ k' = i + 1
            /\ spc' = "fwd"
            /\ UNCHANGED j
    /\ UNCHANGED <<contents, contents0, targets, ops, i, removed, deleted,
                   reassigned>>

\* lines 117-126: one iteration of the forward walk
FwdStep ==
    /\ spc = "fwd"
    /\ IF k < Len(ops)
       THEN /\ end' = FwdEnd(end, k)
            /\ IF FwdStops(ops[k + 1], depth)
               THEN /\ spc' = "del"
                    /\ UNCHANGED <<depth, k>>
               ELSE /\ depth' = IF FwdDeepens(ops[k + 1]) THEN depth + 1
                                ELSE IF ops[k + 1].operator = "Q" THEN depth - 1
                                ELSE depth
                    /\ k' = k + 1
                    /\ UNCHANGED spc
       ELSE /\ spc' = "del"
            /\ UNCHANGED <<end, depth, k>>
    /\ UNCHANGED <<contents, contents0, targets, ops, i, j, start, removed,
                   deleted, reassigned>>

\* lines 128-130: the span is deleted and the scan goes on
Delete ==
    /\ spc = "del"
    /\ ops' = DelSlice(ops, start, end)
    /\ removed' = RemovedAfterDel(removed)
    /\ i' = IndexAfterDel(i, start)
    /\ deleted' = Append(deleted, <<start, end>>)
    /\ spc' = "scan"
    /\ UNCHANGED <<contents, contents0, targets, j, k, depth, start, end,
                   reassigned>>

\* lines 93, 133-137: the scan is over; /Contents is reassigned if removed
ScanEnd ==
    /\ spc = "scan"
    /\ i >= Len(ops)
    /\ IF removed # 0
       THEN /\ contents' = Stream(ops)
            /\ reassigned' = TRUE
       ELSE UNCHANGED <<contents, reassigned>>
    /\ spc' = "done"
    /\ UNCHANGED <<contents0, targets, ops, i, j, k, depth, start, end,
                   removed, deleted>>

StripStep ==
    \/ StripEnter
    \/ ScanAdvance
    \/ ScanHit
    \/ BackStep
    \/ FwdStep
    \/ Delete
    \/ ScanEnd

-----------------------------------------------------------------------------
(* PDF objects *)

GAMMA_HOST == <<"g", "a", "m", "m", "a", ".", "a", "p", "p">>
GAMMA_IMG_WIDTH == 575
GAMMA_IMG_HEIGHT == 137
BLANK_PIXEL == <<0, 0, 0>>

\* str.lower() on the letters the URIs of the model are written in
LowerChar(c) ==
    CASE c = "G" -> "g"
      [] c = "A" -> "a"
      [] c = "M" -> "m"
      [] c = "P" -> "p"
      [] OTHER -> c

Lower(str) == [n \in 1..Len(str) |-> LowerChar(str[n])]

\* needle in hay, for strings
Contains(hay, needle) ==
    \E at \in 0..(Len(hay) - Len(needle)) :
        \A n \in 1..Len(needle) : hay[at + n] = needle[n]

\* a /URI value: a string, or an object that is no string
StrValue(chars) == [isStr |-> TRUE, chars |-> chars]
NotAStr == [isStr |-> FALSE, chars |-> <<>>]

\* an annotation: its /A action (absent, or a dictionary with a /URI)
Annot(id, hasA, uri) == [id |-> id, hasA |-> hasA, URI |-> uri]

UriGamma == StrValue(<<"g", "a", "m", "m", "a", ".", "a", "p", "p", "/">>)
UriGammaUpper == StrValue(<<"/", "G", "a", "m", "m", "a", ".", "A", "P", "P">>)
UriOther == StrValue(<<"g", "a", "m", "m", "a", ".", "a", "p">>)

NoAnnots == [present |-> FALSE, items |-> <<>>]
AnnotArray(items) == [present |-> TRUE, items |-> items]

\* a filter that also drops the annotations that carry no action
should_remove_annotation_NoAction(annot_obj) ==
    IF ~annot_obj.hasA THEN TRUE
    ELSE IF ~annot_obj.URI.isStr THEN FALSE
    ELSE Contains(Lower(annot_obj.URI.chars), GAMMA_HOST)

\* a filter that compares the URI as written, without lower-casing it
should_remove_annotation_CaseSensitive(annot_obj) ==
    IF ~annot_obj.hasA THEN FALSE
    ELSE IF ~annot_obj.URI.isStr THEN FALSE
    ELSE Contains(annot_obj.URI.chars, GAMMA_HOST)

\* lines 36-43
should_remove_annotation(annot_obj) ==
    IF ~annot_obj.hasA THEN FALSE
    ELSE IF ~annot_obj.URI.isStr THEN FALSE
    ELSE Contains(Lower(annot_obj.URI.chars), GAMMA_HOST)

\* an image (or form) XObject: its dictionary and its payload
OptionalKeys == {"/Filter", "/DecodeParms", "/SMask", "/Mask"}

XObj(subtype, w, h, bpc, cs, data, opt) ==
    [Subtype |-> subtype, Width |-> w, Height |-> h, BitsPerComponent |-> bpc,
     ColorSpace |-> cs, Length |-> Len(data), data |-> data, opt |-> opt]

LogoData == <<7, 7, 7, 7>>

Logo == XObj("/Image", GAMMA_IMG_WIDTH, GAMMA_IMG_HEIGHT, 8, "/DeviceRGB",
             LogoData, {"/Filter", "/SMask"})
Photo == XObj("/Image", GAMMA_IMG_WIDTH, 100, 8, "/DeviceGray",
              LogoData, {"/Filter"})
Form == XObj("/Form", GAMMA_IMG_WIDTH, GAMMA_IMG_HEIGHT, 8, "/DeviceRGB",
             LogoData, {})

ObjIds == {"o1", "o2", "o3"}

\* a resource dictionary entry /XObject: name -> object
NoNames == [n \in {} |-> "o1"]

\* a test that compares the width only
IsGammaImageWidthOnly(img) ==
    /\ img.Subtype = "/Image"
    /\ img.Width = GAMMA_IMG_WIDTH

\* a test that accepts dimensions one pixel off
IsGammaImageTolerant(img) ==
    /\ img.Subtype = "/Image"
    /\ img.Width \in (GAMMA_IMG_WIDTH - 1)..(GAMMA_IMG_WIDTH + 1)
    /\ img.Height \in (GAMMA_IMG_HEIGHT - 1)..(GAMMA_IMG_HEIGHT + 1)

\* lines 55-59: an image of exactly the logo's dimensions
IsGammaImage(img) ==
    /\ img.Subtype = "/Image"
    /\ img.Width = GAMMA_IMG_WIDTH
    /\ img.Height = GAMMA_IMG_HEIGHT

\* lines 46-61
find_gamma_xobjects(page, heap) ==
    IF ~page.hasResources THEN NoNames
    ELSE LET xobjects == IF page.hasXObject THEN page.XObject ELSE NoNames
         IN [n \in {m \in DOMAIN xobjects : IsGammaImage(heap[xobjects[m]])}
                |-> xobjects[n]]

\* a scrub that takes /Length from the payload it is about to replace
ScrubImageStaleLength(img) ==
    [img EXCEPT !.data = BLANK_PIXEL,
                !.Width = 1,
                !.Height = 1,
                !.BitsPerComponent = 8,
                !.ColorSpace = "/DeviceRGB",
                !.Length = Len(img.data),
                !.opt = img.opt \ OptionalKeys]

\* a scrub that puts a new dictionary in the image's place
ScrubImageFresh(img) ==
    [Subtype |-> "/Image", Width |-> 1, Height |-> 1, BitsPerComponent |-> 8,
     ColorSpace |-> "/DeviceRGB", Length |-> Len(BLANK_PIXEL),
     data |-> BLANK_PIXEL, opt |-> {}]

\* lines 67-75: one image is blanked
ScrubImage(img) ==
    [img EXCEPT !.data = BLANK_PIXEL,
                !.Width = 1,
                !.Height = 1,
                !.BitsPerComponent = 8,
                !.ColorSpace = "/DeviceRGB",
                !.Length = Len(BLANK_PIXEL),
                !.opt = img.opt \ OptionalKeys]

\* the order in which targets.items() yields the names
NameOrder == <<"/Im1", "/Im2">>

\* lines 66-76: the loop over targets.items(), from the n-th name on
RECURSIVE ScrubFrom(_, _, _)
ScrubFrom(heap, tg, n) ==
    IF n > Len(NameOrder) THEN heap
    ELSE IF NameOrder[n] \in DOMAIN tg
         THEN ScrubFrom([heap EXCEPT ![tg[NameOrder[n]]] = ScrubImage(@)],
                        tg, n + 1)
         ELSE ScrubFrom(heap, tg, n + 1)

\* lines 64-77: the heap after scrub_gamma_images, and the count it returns
scrub_gamma_images(heap, tg) ==
    [heap |-> ScrubFrom(heap, tg, 1), scrubbed |-> Cardinality(DOMAIN tg)]

\* a page object
Page(annots, hasRes, hasX, xobj, cont) ==
    [Annots |-> annots, hasResources |-> hasRes, hasXObject |-> hasX,
     XObject |-> xobj, Contents |-> cont]

-----------------------------------------------------------------------------
(* Files *)

\* a file: how much of it is on disk, who wrote it, and what it holds
NoFile == [state |-> "absent", by |-> "none", data |-> <<>>]
SourceFile(d) == [state |-> "complete", by |-> "source", data |-> d]
WrittenFile(st, d) == [state |-> st, by |-> "writer", data |-> d]

NoValue == -1

\* line 178: the file the new bytes are written to
PdfWriteTargetInPlace == "orig"
PdfWriteTarget == "tmp"

-----------------------------------------------------------------------------
(* process_pdf *)

\* lines 146-147: the next page; its target images are looked up
PdfFind ==
    /\ ppc = "page"
    /\ pidx <= Len(pages)
    /\ gamma_targets' = find_gamma_xobjects(pages[pidx], images)
    /\ ppc' = "annots"
    /\ UNCHANGED <<pages, pages0, images, images0, pidx, annotations_removed,
                   images_scrubbed, writerPages, ret, exc, disk>>
    /\ UNCHANGED <<stripVars, scrubVars, pptxVars, toolVars>>

\* lines 150-156: the annotations that stay
KeptAnnots(items) ==
    SelectSeq(items, LAMBDA a : ~should_remove_annotation(a))

\* lines 148-162: the page's annotations are filtered
PdfAnnots ==
    /\ ppc = "annots"
    /\ LET annots == pages[pidx].Annots
           new_annots == KeptAnnots(annots.items)
       IN IF annots.present /\ annots.items # <<>>
          THEN /\ annotations_removed' =
                      annotations_removed + (Len(annots.items) - Len(new_annots))
               /\ pages' = IF Len(new_annots) # Len(annots.items)
                           THEN [pages EXCEPT ![pidx].Annots =
                                    IF new_annots # <<>>
                                    THEN AnnotArray(new_annots)
                                    ELSE NoAnnots]
                           ELSE pages
          ELSE UNCHANGED <<pages, annotations_removed>>
    /\ ppc' = "scrub"
    /\ UNCHANGED <<pages0, images, images0, gamma_targets, pidx,
                   images_scrubbed, writerPages, ret, exc, disk>>
    /\ UNCHANGED <<stripVars, scrubVars, pptxVars, toolVars>>

\* lines 164-165: the targets are scrubbed; strip_draw_commands is called
PdfScrub ==
    /\ ppc = "scrub"
    /\ LET r == scrub_gamma_images(images, gamma_targets)
       IN /\ images' = r.heap
          /\ images_scrubbed' = images_scrubbed + r.scrubbed
    /\ contents' = pages[pidx].Contents
    /\ contents0' = pages[pidx].Contents
    /\ targets' = DOMAIN gamma_targets
    /\ deleted' = <<>>
    /\ reassigned' = FALSE
    /\ spc' = "entry"
    /\ ppc' = "strip"
    /\ UNCHANGED <<ops, i, j, k, depth, start, end, removed>>
    /\ UNCHANGED <<pages, pages0, images0, gamma_targets, pidx,
                   annotations_removed, writerPages, ret, exc, disk>>
    /\ UNCHANGED <<scrubVars, pptxVars, toolVars>>

\* lines 165-166: strip_draw_commands has returned; the page is added
PdfAddPage ==
    /\ ppc = "strip"
    /\ spc = "done"
    /\ pages' = [pages EXCEPT ![pidx].Contents = contents]
    /\ writerPages' = Append(writerPages, pages'[pidx])
    /\ pidx' = pidx + 1
    /\ spc' = "idle"
    /\ ppc' = "page"
    /\ UNCHANGED <<contents, contents0, targets, ops, i, j, k, depth, start,
                   end, removed, deleted, reassigned>>
    /\ UNCHANGED <<pages0, images, images0, gamma_targets,
                   annotations_removed, images_scrubbed, ret, exc, disk>>
    /\ UNCHANGED <<scrubVars, pptxVars, toolVars>>

\* lines 171-173: nothing was removed; the file is left alone
PdfReturnZero ==
    /\ ppc = "page"
    /\ pidx > Len(pages)
    /\ annotations_removed + images_scrubbed = 0
    /\ ret' = 0
    /\ ppc' = "returned"
    /\ UNCHANGED <<pages, pages0, images, images0, gamma_targets, pidx,
                   annotations_removed, images_scrubbed, writerPages, exc, disk>>
    /\ UNCHANGED <<stripVars, scrubVars, pptxVars, toolVars>>

\* lines 171-176: something was removed; the temporary file is created
PdfMkTmp ==
    /\ ppc = "page"
    /\ pidx > Len(pages)
    /\ annotations_removed + images_scrubbed # 0
    /\ \/ /\ disk' = [disk EXCEPT !.tmp = WrittenFile("empty", <<>>)]
          /\ ppc' = "write"
          /\ UNCHANGED exc
       \/ /\ exc' = TRUE
          /\ ppc' = "raised"
          /\ UNCHANGED disk
    /\ UNCHANGED <<pages, pages0, images, images0, gamma_targets, pidx,
                   annotations_removed, images_scrubbed, writerPages, ret>>
    /\ UNCHANGED <<stripVars, scrubVars, pptxVars, toolVars>>

\* lines 178-179: writer.write(fh) writes the document, a part at a time
PdfWrite ==
    /\ ppc = "write"
    /\ \/ /\ disk[PdfWriteTarget].state # "partial"
          /\ disk' = [disk EXCEPT
                         ![PdfWriteTarget] = WrittenFile("partial", writerPages)]
          /\ UNCHANGED ppc
       \/ /\ disk[PdfWriteTarget].state = "partial"
          /\ disk' = [disk EXCEPT
                         ![PdfWriteTarget] = WrittenFile("complete", writerPages)]
          /\ ppc' = "replace"
    /\ UNCHANGED <<pages, pages0, images, images0, gamma_targets, pidx,
                   annotations_removed, images_scrubbed, writerPages, ret, exc>>
    /\ UNCHANGED <<stripVars, scrubVars, pptxVars, toolVars>>

\* lines 178-179, 181: the write raises; control goes to the finally clause
PdfWriteFail ==
    /\ ppc = "write"
    /\ exc' = TRUE
    /\ ppc' = "finally"
    /\ UNCHANGED <<pages, pages0, images, images0, gamma_targets, pidx,
                   annotations_removed, images_scrubbed, writerPages, ret, disk>>
    /\ UNCHANGED <<stripVars, scrubVars, pptxVars, toolVars>>

\* line 180: os.replace(tmp_path, path), atomic; or it raises
PdfReplace ==
    /\ ppc = "replace"
    /\ \/ /\ disk' = [disk EXCEPT !.orig = disk.tmp, !.tmp = NoFile]
          /\ UNCHANGED exc
       \/ /\ exc' = TRUE
          /\ UNCHANGED disk
    /\ ppc' = "finally"
    /\ UNCHANGED <<pages, pages0, images, images0, gamma_targets, pidx,
                   annotations_removed, images_scrubbed, writerPages, ret>>
    /\ UNCHANGED <<stripVars, scrubVars, pptxVars, toolVars>>

\* lines 181-185: the temporary file is unlinked if it is still there
PdfFinally ==
    /\ ppc = "finally"
    /\ disk' = [disk EXCEPT !.tmp = NoFile]
    /\ IF exc
       THEN /\ ppc' = "raised"
            /\ UNCHANGED ret
       ELSE /\ ppc' = "returned"
            /\ ret' = annotations_removed + images_scrubbed
    /\ UNCHANGED <<pages, pages0, images, images0, gamma_targets, pidx,
                   annotations_removed, images_scrubbed, writerPages, exc>>
    /\ UNCHANGED <<stripVars, scrubVars, pptxVars, toolVars>>

\* the process is killed while the file is being written or installed
PdfKilled ==
    /\ ppc \in {"write", "replace", "finally"}
    /\ ppc' = "killed"
    /\ UNCHANGED <<pages, pages0, images, images0, gamma_targets, pidx,
                   annotations_removed, images_scrubbed, writerPages, ret, exc,
                   disk>>
    /\ UNCHANGED <<stripVars, scrubVars, pptxVars, toolVars>>

\* strip_draw_commands running inside process_pdf
PdfStrip ==
    /\ ppc = "strip"
    /\ StripStep
    /\ UNCHANGED <<pdfVars, scrubVars, pptxVars, toolVars>>

-----------------------------------------------------------------------------
(* PPTX parts *)

HYPERLINK == <<"h", "y", "p", "e", "r", "l", "i", "n", "k">>
TypeHyperlink == <<"r", "/", "h", "y", "p", "e", "r", "l", "i", "n", "k">>
TypeImage == <<"r", "/", "i", "m", "a", "g", "e">>

\* a Relationship element of a .rels part; Id "" stands for no Id attribute
Rel(id, type, target) == [Id |-> id, Type |-> type, Target |-> target]

\* an element of the layout's shape tree: a p:pic, a p:sp or a p:grpSp, with
\* the r:id of its a:hlinkClick descendants, the r:embed of its a:blip
\* descendants ("" for a blip without r:embed) and its child shapes
Shape(tag, hlinks, embeds, children) ==
    [tag |-> tag, hlinks |-> hlinks, embeds |-> embeds, children |-> children]

\* a part of the archive: absent, or bytes in the producer's serialization
\* or in ElementTree's, holding a tree
NoPart == [present |-> FALSE, form |-> "none", tree |-> <<>>]
ProducerXml(t) == [present |-> TRUE, form |-> "producer", tree |-> t]

\* lines 106-108: ET.tostring(tree, encoding="utf-8", xml_declaration=True)
ETtostring(t) == [present |-> TRUE, form |-> "etree", tree |-> t]

\* lines 57, 73: ET.fromstring(bytes)
ETfromstring(b) == b.tree

\* a test that takes every hyperlink relationship, whatever its target
IsGammaHyperlinkRelAnyTarget(rel) ==
    /\ Contains(rel.Type, HYPERLINK)
    /\ rel.Id # ""

\* lines 61-65
IsGammaHyperlinkRel(rel) ==
    /\ Contains(rel.Type, HYPERLINK)
    /\ Contains(Lower(rel.Target), GAMMA_HOST)
    /\ rel.Id # ""

\* a test that looks at the first a:hlinkClick only
should_remove_FirstLinkOnly(pic, gamma_hlink_ids) ==
    Len(pic.hlinks) >= 1 /\ pic.hlinks[1] \in gamma_hlink_ids

\* lines 76-81: the picture has an a:hlinkClick whose r:id is a gamma id
should_remove(pic, gamma_hlink_ids) ==
    \E n \in 1..Len(pic.hlinks) : pic.hlinks[n] \in gamma_hlink_ids

\* line 88
IsRemovedPic(child, gamma_hlink_ids) ==
    child.tag = "pic" /\ should_remove(child, gamma_hlink_ids)

\* lines 89-92: the r:embed ids of a removed picture's blips
EmbedsOf(pic) == {pic.embeds[n] : n \in 1..Len(pic.embeds)} \ {""}

\* lines 83-94: walk(parent) on the shape tree: the children are walked,
\* then the matching pictures among them are removed
walk(shapes, ids) ==
    LET walked == [n \in 1..Len(shapes) |->
                      [shapes[n] EXCEPT !.children =
                          SelectSeq(@, LAMBDA c : ~IsRemovedPic(c, ids))]]
    IN SelectSeq(walked, LAMBDA c : ~IsRemovedPic(c, ids))

\* lines 88-93: the pictures walk removes, at either depth
RemovedPics(shapes, ids) ==
    {shapes[n] : n \in {m \in 1..Len(shapes) : IsRemovedPic(shapes[m], ids)}}
    \cup UNION {{shapes[n].children[c] :
                    c \in {m \in 1..Len(shapes[n].children) :
                              IsRemovedPic(shapes[n].children[m], ids)}} :
                n \in 1..Len(shapes)}

\* lines 48-112
strip_gamma_from_layout(layout_bytes, rel_bytes) ==
    LET rel_tree0 == IF rel_bytes.present THEN ETfromstring(rel_bytes) ELSE <<>>
        gamma_hlink_ids ==
            {rel_tree0[n].Id :
                n \in {m \in 1..Len(rel_tree0) : IsGammaHyperlinkRel(rel_tree0[m])}}
        rel_tree1 == SelectSeq(rel_tree0, LAMBDA r : ~IsGammaHyperlinkRel(r))
        changed1 == Len(rel_tree1) # Len(rel_tree0)
    IN IF gamma_hlink_ids = {}
       THEN [layout |-> layout_bytes, rels |-> rel_bytes, changed |-> changed1]
       ELSE LET layout_tree0 == ETfromstring(layout_bytes)
                pics == RemovedPics(layout_tree0, gamma_hlink_ids)
                layout_tree == walk(layout_tree0, gamma_hlink_ids)
                embed_ids_to_remove == UNION {EmbedsOf(pc) : pc \in pics}
                changed == changed1 \/ pics # {}
                rel_tree == SelectSeq(rel_tree1,
                                LAMBDA r : r.Id \notin embed_ids_to_remove)
            IN IF ~changed
               THEN [layout |-> layout_bytes, rels |-> rel_bytes,
                     changed |-> FALSE]
               ELSE [layout |-> ETtostring(layout_tree),
                     rels |-> ETtostring(rel_tree),
                     changed |-> TRUE]

\* a layout of the archive: its part and its relationships part
Layout(layout, rels) == [layout |-> layout, rels |-> rels]

\* the path the tool works on: PPTX_FILE for main, the copy for the wrapper
TargetPath == IF caller = "streamlit" THEN "dest" ELSE "orig"

\* line 123: the file the new archive is written to
WaWriteTargetInPlace == TargetPath
WaWriteTarget == "tmp"

-----------------------------------------------------------------------------
(* remove_gamma_logo.main and streamlit_app.process_pptx *)

pdfRest == <<pages, pages0, images, images0, gamma_targets, pidx,
             annotations_removed, images_scrubbed, writerPages, ppc>>

\* streamlit_app.py line 26: shutil.copy(src, dest)
PptxCopy ==
    /\ xpc = "copy"
    /\ disk' = [disk EXCEPT !.dest = disk.orig]
    /\ xpc' = "load"
    /\ UNCHANGED <<caller, archive, archive0, lidx, total_removed, stripResults>>
    /\ UNCHANGED <<ret, exc, pdfRest, stripVars, scrubVars, toolVars>>

\* lines 141-148 (streamlit_app.py 27-34): load_archive, the layout names
PptxLoad ==
    /\ xpc = "load"
    /\ archive' = disk[TargetPath].data
    /\ archive0' = disk[TargetPath].data
    /\ lidx' = 1
    /\ total_removed' = 0
    /\ xpc' = "layouts"
    /\ UNCHANGED <<caller, stripResults>>
    /\ UNCHANGED <<disk, ret, exc, pdfRest, stripVars, scrubVars, toolVars>>

\* lines 150-166 (streamlit_app.py 35-51): one layout is stripped
PptxLayout ==
    /\ xpc = "layouts"
    /\ lidx <= Len(archive)
    /\ LET r == strip_gamma_from_layout(archive[lidx].layout, archive[lidx].rels)
       IN /\ stripResults' = Append(stripResults, r)
          /\ IF r.changed
             THEN /\ archive' = [archive EXCEPT ![lidx] = Layout(r.layout, r.rels)]
                  /\ total_removed' = total_removed + 1
             ELSE UNCHANGED <<archive, total_removed>>
    /\ lidx' = lidx + 1
    /\ UNCHANGED <<caller, archive0, xpc>>
    /\ UNCHANGED <<disk, ret, exc, pdfRest, stripVars, scrubVars, toolVars>>

\* lines 168-170 (streamlit_app.py 53-54): nothing removed, nothing written
PptxReturnZero ==
    /\ xpc = "layouts"
    /\ lidx > Len(archive)
    /\ total_removed = 0
    /\ ret' = 0
    /\ xpc' = "returned"
    /\ UNCHANGED <<caller, archive, archive0, lidx, total_removed, stripResults>>
    /\ UNCHANGED <<disk, exc, pdfRest, stripVars, scrubVars, toolVars>>

\* lines 172, 120-121: write_archive is called; the temporary file is created
WaMkTmp ==
    /\ xpc = "layouts"
    /\ lidx > Len(archive)
    /\ total_removed # 0
    /\ \/ /\ disk' = [disk EXCEPT !.tmp = WrittenFile("empty", <<>>)]
          /\ xpc' = "write"
          /\ UNCHANGED exc
       \/ /\ exc' = TRUE
          /\ xpc' = "raised"
          /\ UNCHANGED disk
    /\ UNCHANGED <<caller, archive, archive0, lidx, total_removed, stripResults>>
    /\ UNCHANGED <<ret, pdfRest, stripVars, scrubVars, toolVars>>

\* lines 123-125: the entries are written to the zip file, a part at a time
WaWrite ==
    /\ xpc = "write"
    /\ \/ /\ disk[WaWriteTarget].state # "partial"
          /\ disk' = [disk EXCEPT
                         ![WaWriteTarget] = WrittenFile("partial", archive)]
          /\ UNCHANGED xpc
       \/ /\ disk[WaWriteTarget].state = "partial"
          /\ disk' = [disk EXCEPT
                         ![WaWriteTarget] = WrittenFile("complete", archive)]
          /\ xpc' = "replace"
    /\ UNCHANGED <<caller, archive, archive0, lidx, total_removed, stripResults>>
    /\ UNCHANGED <<ret, exc, pdfRest, stripVars, scrubVars, toolVars>>

\* lines 123-125, 127: the write raises; control goes to the finally clause
WaWriteFail ==
    /\ xpc = "write"
    /\ exc' = TRUE
    /\ xpc' = "finally"
    /\ UNCHANGED <<caller, archive, archive0, lidx, total_removed, stripResults>>
    /\ UNCHANGED <<disk, ret, pdfRest, stripVars, scrubVars, toolVars>>

\* line 126: os.replace(tmp_path, path), atomic; or it raises
WaReplace ==
    /\ xpc = "replace"
    /\ \/ /\ disk' = [disk EXCEPT ![TargetPath] = disk.tmp, !.tmp = NoFile]
          /\ UNCHANGED exc
       \/ /\ exc' = TRUE
          /\ UNCHANGED disk
    /\ xpc' = "finally"
    /\ UNCHANGED <<caller, archive, archive0, lidx, total_removed, stripResults>>
    /\ UNCHANGED <<ret, pdfRest, stripVars, scrubVars, toolVars>>

\* lines 127-129, 173 (streamlit_app.py 57): the temporary file is unlinked
WaFinally ==
    /\ xpc = "finally"
    /\ disk' = [disk EXCEPT !.tmp = NoFile]
    /\ IF exc
       THEN /\ xpc' = "raised"
            /\ UNCHANGED ret
       ELSE /\ xpc' = "returned"
            /\ ret' = total_removed
    /\ UNCHANGED <<caller, archive, archive0, lidx, total_removed, stripResults>>
    /\ UNCHANGED <<exc, pdfRest, stripVars, scrubVars, toolVars>>

\* the process is killed while the archive is being written or installed
WaKilled ==
    /\ xpc \in {"write", "replace", "finally"}
    /\ xpc' = "killed"
    /\ UNCHANGED <<caller, archive, archive0, lidx, total_removed, stripResults>>
    /\ UNCHANGED <<disk, ret, exc, pdfRest, stripVars, scrubVars, toolVars>>

-----------------------------------------------------------------------------
(* scrub_gamma_images applied again to the same targets *)

ScrubCall ==
    /\ ppc = "scrubonly"
    /\ scrubCalls < MaxScrubCalls
    /\ LET r == scrub_gamma_images(images, gamma_targets)
       IN /\ images' = r.heap
          /\ images_scrubbed' = r.scrubbed
          /\ afterFirst' = IF scrubCalls = 0 THEN r.heap ELSE afterFirst
    /\ scrubCalls' = scrubCalls + 1
    /\ UNCHANGED <<pages, pages0, images0, gamma_targets, pidx,
                   annotations_removed, writerPages, ret, exc, disk, ppc>>
    /\ UNCHANGED <<stripVars, pptxVars, toolVars>>

-----------------------------------------------------------------------------
(* unlock_pdf (unlock_pdf.py) *)

\* a PDF file on disk: its pages are page objects, named by their number
PdfFile(enc, n) ==
    [exists |-> TRUE, wellformed |-> TRUE, is_encrypted |-> enc,
     pages |-> [x \in 1..n |-> x]]

MissingFile ==
    [exists |-> FALSE, wellformed |-> FALSE, is_encrypted |-> FALSE,
     pages |-> <<>>]

\* a file that exists but that PdfReader cannot parse
CorruptFile ==
    [exists |-> TRUE, wellformed |-> FALSE, is_encrypted |-> FALSE,
     pages |-> <<>>]

UserPassword == "user"
OwnerPassword == "owner"

\* reader.decrypt(password): 0 not decrypted, 1 user password, 2 owner password
decrypt(password) ==
    IF password = UserPassword THEN 1
    ELSE IF password = OwnerPassword THEN 2
    ELSE 0

\* the truth value of a decrypt result, as the if statement takes it
Truthy(r) == r # 0

AddPageInFront(w, page) == <<page>> \o w

\* writer.add_page(page)
AddPage(w, page) == Append(w, page)

\* the file at output_pdf_path
OutFile(st, pp) == [state |-> st, pages |-> pp]

NoReturn == [ok |-> FALSE, message |-> "none"]

Return(ok, message) == [ok |-> ok, message |-> message]

HandlerNotFoundOnly(kind) ==
    IF kind = "FileNotFoundError" THEN "notfound" ELSE "escapes"

\* the except clauses: FileNotFoundError first, then Exception, of which
\* every error raised in the try block is an instance
Handler(kind) ==
    IF kind = "FileNotFoundError" THEN "notfound" ELSE "unexpected"

UnlockRaise(kind) ==
    /\ uraised' = kind
    /\ upc' = "except"

\* reader = PdfReader(input_pdf_path)
UnlockOpen ==
    /\ upc = "open"
    /\ IF ~uin.exists THEN UnlockRaise("FileNotFoundError")
       ELSE IF ~uin.wellformed THEN UnlockRaise("PdfReadError")
       ELSE upc' = "check" /\ UNCHANGED uraised
    /\ UNCHANGED <<uin, upassword, uwriter, uout, uopened, uret>>
    /\ UNCHANGED unlockRest

\* if reader.is_encrypted: if reader.decrypt(password): ... else: return False
UnlockCheck ==
    /\ upc = "check"
    /\ IF uin.is_encrypted /\ ~Truthy(decrypt(upassword))
       THEN /\ uret' = Return(FALSE, "incorrect")
            /\ upc' = "returned"
       ELSE /\ upc' = "pages"
            /\ UNCHANGED uret
    /\ UNCHANGED <<uin, upassword, uwriter, uout, uopened, uraised>>
    /\ UNCHANGED unlockRest

\* for page in reader.pages: writer.add_page(page)
UnlockAddPage ==
    /\ upc = "pages"
    /\ IF Len(uwriter) < Len(uin.pages)
       THEN /\ uwriter' = AddPage(uwriter, uin.pages[Len(uwriter) + 1])
            /\ UNCHANGED upc
       ELSE /\ upc' = "openout"
            /\ UNCHANGED uwriter
    /\ UNCHANGED <<uin, upassword, uout, uopened, uraised, uret>>
    /\ UNCHANGED unlockRest

\* with open(output_pdf_path, "wb") as output_file: creates or truncates
UnlockOpenOut ==
    /\ upc = "openout"
    /\ \/ /\ uout' = OutFile("partial", <<>>)
          /\ uopened' = TRUE
          /\ upc' = "write"
          /\ UNCHANGED uraised
       \/ /\ UnlockRaise("PermissionError")
          /\ UNCHANGED <<uout, uopened>>
    /\ UNCHANGED <<uin, upassword, uwriter, uret>>
    /\ UNCHANGED unlockRest

\* writer.write(output_file), then return True and the message of the branch
UnlockWrite ==
    /\ upc = "write"
    /\ \/ /\ uout' = OutFile("complete", uwriter)
          /\ uret' = Return(TRUE, IF uin.is_encrypted THEN "unlocked"
                                   ELSE "notprotected")
          /\ upc' = "returned"
          /\ UNCHANGED uraised
       \/ /\ UnlockRaise("OSError")
          /\ UNCHANGED <<uout, uret>>
    /\ UNCHANGED <<uin, upassword, uwriter, uopened>>
    /\ UNCHANGED unlockRest

\* except FileNotFoundError / except Exception as e: return False, message
UnlockExcept ==
    /\ upc = "except"
    /\ IF Handler(uraised) = "escapes"
       THEN /\ upc' = "escaped"
            /\ UNCHANGED uret
       ELSE /\ uret' = Return(FALSE, Handler(uraised))
            /\ upc' = "returned"
    /\ UNCHANGED <<uin, upassword, uwriter, uout, uopened, uraised>>
    /\ UNCHANGED unlockRest

-----------------------------------------------------------------------------
(* nuke_pptx_metadata and _scrub_xml (metadata_nuke.py) *)

\* an element of a docProps part: its tag is {ns}local, or local alone
El(ns, local, text) == [ns |-> ns, local |-> local, text |-> text]

CoreTags == {"creator", "lastModifiedBy", "created", "modified", "title",
             "subject", "description", "keywords", "category"}

AppTags == {"Company", "Manager"}

DateTags == {"created", "modified"}

EpochDate == "1970-01-01T00:00:00Z"

\* a file of the archive: absent, well-formed XML, or bytes ET.parse rejects
\* (elems are then the elements the text of the file still shows)
NoXml == [present |-> FALSE, wellformed |-> FALSE, elems |-> <<>>]

Xml(elems) == [present |-> TRUE, wellformed |-> TRUE, elems |-> elems]

BadXml(elems) == [present |-> TRUE, wellformed |-> FALSE, elems |-> elems]

get_local_name(elem) == elem.local

\* the body of the for loop of _scrub_xml on one element
ScrubElem(elem, tags) ==
    IF get_local_name(elem) \in tags
    THEN [elem EXCEPT !.text = IF get_local_name(elem) \in DateTags
                                THEN EpochDate ELSE ""]
    ELSE elem

\* _scrub_xml(file_path, tags_to_scrub): the outcomes of one call, each the
\* file afterwards and whether the except clause printed the warning
ScrubXmlOutcomes(file, tags) ==
    IF ~file.wellformed
    THEN {[file |-> file, warned |-> TRUE]}
    ELSE {[file |-> Xml([x \in 1..Len(file.elems) |->
                            ScrubElem(file.elems[x], tags)]),
           warned |-> FALSE],
          \* tree.write raises before or after truncating the file
          [file |-> file, warned |-> TRUE],
          [file |-> BadXml(<<>>), warned |-> TRUE]}

NoArchive == [state |-> "absent", core |-> NoXml, app |-> NoXml]

Pptx(core, app) == [state |-> "complete", core |-> core, app |-> app]

\* a file that zipfile.ZipFile cannot open
NotAZip == [state |-> "invalid", core |-> NoXml, app |-> NoXml]

\* with zipfile.ZipFile(input_path, 'r') as zip_ref: zip_ref.extractall
NukeExtract ==
    /\ npc = "extract"
    /\ IF nin.state = "complete"
       THEN /\ ndir' = [core |-> nin.core, app |-> nin.app]
            /\ npc' = "core"
            /\ UNCHANGED nret
       ELSE /\ nret' = "False"
            /\ npc' = "returned"
            /\ UNCHANGED ndir
    /\ UNCHANGED <<nin, nfailed, nout>>
    /\ UNCHANGED nukeRest

\* if core_xml_path.exists(): _scrub_xml(core_xml_path, [...])
NukeScrubCore ==
    /\ npc = "core"
    /\ IF ndir.core.present
       THEN \E o \in ScrubXmlOutcomes(ndir.core, CoreTags) :
               /\ ndir' = [ndir EXCEPT !.core = o.file]
               /\ nfailed' = IF o.warned THEN nfailed \cup {"core"}
                             ELSE nfailed
       ELSE UNCHANGED <<ndir, nfailed>>
    /\ npc' = "app"
    /\ UNCHANGED <<nin, nout, nret>>
    /\ UNCHANGED nukeRest

\* if app_xml_path.exists(): _scrub_xml(app_xml_path, ["Company", "Manager"])
NukeScrubApp ==
    /\ npc = "app"
    /\ IF ndir.app.present
       THEN \E o \in ScrubXmlOutcomes(ndir.app, AppTags) :
               /\ ndir' = [ndir EXCEPT !.app = o.file]
               /\ nfailed' = IF o.warned THEN nfailed \cup {"app"}
                             ELSE nfailed
       ELSE UNCHANGED <<ndir, nfailed>>
    /\ npc' = "zip"
    /\ UNCHANGED <<nin, nout, nret>>
    /\ UNCHANGED nukeRest

\* the re-zip of the directory into output_path, then return True; an
\* exception there is caught at line 82 and False is returned
NukeZip ==
    /\ npc = "zip"
    /\ \/ /\ nout' = Pptx(ndir.core, ndir.app)
          /\ nret' = "True"
       \/ /\ nout' = [state |-> "partial", core |-> NoXml, app |-> NoXml]
          /\ nret' = "False"
    /\ npc' = "returned"
    /\ UNCHANGED <<nin, ndir, nfailed>>
    /\ UNCHANGED nukeRest

-----------------------------------------------------------------------------
(* fetch_applied_jobs (export_iimjobs_applied.py) *)

\* the batch size below which a page is taken to be the last one
FullBatch == 50

\* the jobs of page p when it holds n of them: job x of page p is <<p, x>>
Batch(p, n) == [x \in 1..n |-> <<p, x>>]

\* payload["data"]["jobs"] of the response for a page number (0-based); a
\* page past the end has no jobs, and `or []` makes that the empty list
BatchOf(api, p) == IF p + 1 <= Len(api) THEN api[p + 1] ELSE <<>>

IsLastBatchOrFull(batch) == Len(batch) <= FullBatch

\* if len(batch) < 50: break
IsLastBatch(batch) == Len(batch) < FullBatch

\* one iteration of the while loop whose request succeeds
FetchPage ==
    /\ fpc = "loop"
    /\ frequested' = Append(frequested, fpage)
    /\ LET batch == BatchOf(fapi, fpage)
       IN IF batch = <<>>
          THEN /\ fpc' = "returned"
               /\ UNCHANGED <<fjobs, fpage>>
          ELSE /\ fjobs' = fjobs \o batch
               /\ IF IsLastBatch(batch)
                  THEN fpc' = "returned" /\ UNCHANGED fpage
                  ELSE fpc' = "loop" /\ fpage' = fpage + 1
    /\ UNCHANGED fapi
    /\ UNCHANGED fetchRest

\* session.get or response.raise_for_status() raises: the call ends with
\* the exception
FetchFail ==
    /\ fpc = "loop"
    /\ frequested' = Append(frequested, fpage)
    /\ fpc' = "raised"
    /\ UNCHANGED <<fapi, fpage, fjobs>>
    /\ UNCHANGED fetchRest

-----------------------------------------------------------------------------
(* find_gamma_xobjects called on its own *)

FindCall ==
    /\ ppc = "findonly"
    /\ gamma_targets' = find_gamma_xobjects(pages[1], images)
    /\ ppc' = "found"
    /\ UNCHANGED <<pages, pages0, images, images0, pidx, annotations_removed,
                   images_scrubbed, writerPages, ret, exc, disk>>
    /\ UNCHANGED <<stripVars, scrubVars, pptxVars, toolVars>>

-----------------------------------------------------------------------------
(* strip_gamma_from_layout called on its own *)

LayoutCall ==
    /\ xpc = "striponly"
    /\ stripResults' =
          <<strip_gamma_from_layout(archive[1].layout, archive[1].rels)>>
    /\ xpc' = "stripped"
    /\ UNCHANGED <<caller, archive, archive0, lidx, total_removed>>
    /\ UNCHANGED <<disk, ret, exc, pdfRest, stripVars, scrubVars, toolVars>>

-----------------------------------------------------------------------------
(* Configuration checks: main of the removers, export_applied_jobs *)

\* a Python value that is None or a string
NoneValue == [isNone |-> TRUE, str |-> ""]
StrOf(str) == [isNone |-> FALSE, str |-> str]

TruthyUnlessNone(v) == ~v.isNone

\* the truth value of `not v` negated: None and "" are false
TruthOf(v) == ~v.isNone /\ v.str # ""

\* fail(message): the message goes to stderr, sys.exit(1)
MainFail ==
    /\ mexit' = 1
    /\ mpc' = "exited"

\* pdf_path = os.getenv(ENV_VAR); if not pdf_path: fail(...)
MainEnv ==
    /\ mpc = "env"
    /\ IF ~TruthOf(menv) THEN MainFail
       ELSE mpc' = "exists" /\ UNCHANGED mexit
    /\ UNCHANGED <<mtool, menv, mexists, mio>>
    /\ UNCHANGED mainRest

\* path = Path(pdf_path).expanduser(); if not path.exists(): fail(...)
MainExists ==
    /\ mpc = "exists"
    /\ IF ~mexists THEN MainFail
       ELSE mpc' = "run" /\ UNCHANGED mexit
    /\ UNCHANGED <<mtool, menv, mexists, mio>>
    /\ UNCHANGED mainRest

\* process_pdf(path), or load_archive(path) and the layout loop: the file is
\* read, and the run finds nothing, or writes the file, or ends in an
\* uncaught exception
MainRun ==
    /\ mpc = "run"
    /\ \/ /\ mio' = Append(mio, "read")
          /\ mexit' = 0
       \/ /\ mio' = mio \o <<"read", "write">>
          /\ mexit' = 0
       \/ /\ mio' = Append(mio, "read")
          /\ mexit' = 1
    /\ mpc' = "exited"
    /\ UNCHANGED <<mtool, menv, mexists>>
    /\ UNCHANGED mainRest

\* if not email or not password: raise ValueError(...)
ExportCheck ==
    /\ epc = "check"
    /\ IF ~TruthOf(eemail) \/ ~TruthOf(epassword)
       THEN /\ eresult' = "ValueError"
            /\ epc' = "done"
       ELSE /\ epc' = "driver"
            /\ UNCHANGED eresult
    /\ UNCHANGED <<eemail, epassword, edriver, equits, eio>>
    /\ UNCHANGED exportRest

\* driver = build_driver(headless=headless)
ExportBuildDriver ==
    /\ epc = "driver"
    /\ eio' = Append(eio, "browser")
    /\ \/ /\ edriver' = "running"
          /\ epc' = "login"
          /\ UNCHANGED eresult
       \/ /\ eresult' = "WebDriverException"
          /\ epc' = "finally"
          /\ UNCHANGED edriver
    /\ UNCHANGED <<eemail, epassword, equits>>
    /\ UNCHANGED exportRest

\* login(driver, email, password)
ExportLogin ==
    /\ epc = "login"
    /\ eio' = Append(eio, "network")
    /\ \/ /\ epc' = "session"
          /\ UNCHANGED eresult
       \/ /\ eresult' = "TimeoutException"
          /\ epc' = "finally"
    /\ UNCHANGED <<eemail, epassword, edriver, equits>>
    /\ UNCHANGED exportRest

\* session = build_session(driver): the user agent and the cookies are read
\* from the browser
ExportSession ==
    /\ epc = "session"
    /\ eio' = Append(eio, "browser")
    /\ \/ /\ epc' = "fetch"
          /\ UNCHANGED eresult
       \/ /\ eresult' = "WebDriverException"
          /\ epc' = "finally"
    /\ UNCHANGED <<eemail, epassword, edriver, equits>>
    /\ UNCHANGED exportRest

\* raw_jobs = fetch_applied_jobs(session)
ExportFetch ==
    /\ epc = "fetch"
    /\ eio' = Append(eio, "network")
    /\ \/ /\ epc' = "serialize"
          /\ UNCHANGED eresult
       \/ /\ eresult' = "HTTPError"
          /\ epc' = "finally"
    /\ UNCHANGED <<eemail, epassword, edriver, equits>>
    /\ UNCHANGED exportRest

\* serialized_jobs = [serialize_job(job) for job in raw_jobs]
ExportSerialize ==
    /\ epc = "serialize"
    /\ \/ /\ epc' = "csv"
          /\ UNCHANGED eresult
       \/ /\ eresult' = "AttributeError"
          /\ epc' = "finally"
    /\ UNCHANGED <<eemail, epassword, edriver, equits, eio>>
    /\ UNCHANGED exportRest

\* write_jobs_to_csv(serialized_jobs, output_path); return
ExportWrite ==
    /\ epc = "csv"
    /\ eio' = Append(eio, "file")
    /\ \/ eresult' = "returned"
       \/ eresult' = "OSError"
    /\ epc' = "finally"
    /\ UNCHANGED <<eemail, epassword, edriver, equits>>
    /\ UNCHANGED exportRest

\* a finally clause that quits whatever driver holds
QuitAlways(d) == TRUE

\* line 262: if driver: (None is false, a WebDriver object is true)
QuitDue(d) == d # "None"

\* finally: if driver: driver.quit(); an exception raised by quit replaces
\* the outcome of the try block
ExportFinally ==
    /\ epc = "finally"
    /\ IF QuitDue(edriver)
       THEN /\ equits' = equits + 1
            /\ edriver' = IF edriver = "running" THEN "quit" ELSE edriver
            /\ eresult' \in {eresult, "WebDriverException"}
       ELSE UNCHANGED <<equits, edriver, eresult>>
    /\ epc' = "done"
    /\ UNCHANGED <<eemail, epassword, eio>>
    /\ UNCHANGED exportRest

-----------------------------------------------------------------------------
(* download_and_create_pdf (sakamoto_downloader.py) *)

\* an img tag: its class attribute (a set of class names) and its src ("" when
\* the attribute is missing or empty)
Img(classes, src) == [classes |-> classes, src |-> src]

\* 'wp-image' in c, for the class names that occur
HasWpImage(c) == c \in {"wp-image-12", "attachment-wp-image"}

\* lines 23-29: the tags whose src goes into image_urls
Qualifies(img) ==
    /\ \E c \in img.classes : HasWpImage(c)
    /\ img.src # ""

RECURSIVE ImageUrlsFrom(_, _)
\* lines 25-29: image_urls, from the n-th tag on
ImageUrlsFrom(tagseq, n) ==
    IF n > Len(tagseq) THEN <<>>
    ELSE IF Qualifies(tagseq[n])
         THEN <<[tag |-> n, src |-> tagseq[n].src]>> \o ImageUrlsFrom(tagseq, n + 1)
         ELSE ImageUrlsFrom(tagseq, n + 1)

\* a decoded image: the tag it came from and its mode
Picture(tag, mode) == [tag |-> tag, mode |-> mode]

\* lines 47-48: RGBA and P images are converted to RGB
ConvertMode(mode) == IF mode \in {"RGBA", "P"} THEN "RGB" ELSE mode

NoPdf == [state |-> "absent", images |-> <<>>]

NextAfterErrorAbort(idx, n) == n + 1

\* lines 52-53: the except clause prints and the loop goes on
NextAfterError(idx, n) == idx + 1

\* lines 13-33: the page is fetched and its img tags are filtered
DlFetchPage ==
    /\ dpc = "page"
    /\ drequests' = Append(drequests, [kind |-> "page", tag |-> 0, src |-> "url"])
    /\ \/ /\ dpagefailed' = TRUE
          /\ dresult' = "returned"
          /\ dpc' = "done"
          /\ UNCHANGED dimage_urls
       \/ /\ dimage_urls' = ImageUrlsFrom(dtags, 1)
          /\ IF dimage_urls' = <<>>
             THEN dresult' = "returned" /\ dpc' = "done"
             ELSE dpc' = "images" /\ UNCHANGED dresult
          /\ UNCHANGED dpagefailed
    /\ UNCHANGED <<dtags, didx, dimages, dpdf>>
    /\ UNCHANGED downloadRest

\* lines 37-53: one image is requested and decoded, or its error is printed
DlImage ==
    /\ dpc = "images"
    /\ didx <= Len(dimage_urls)
    /\ drequests' = Append(drequests, [kind |-> "image",
                                       tag |-> dimage_urls[didx].tag,
                                       src |-> dimage_urls[didx].src])
    /\ \/ \E mode \in {"RGB", "RGBA", "P", "L"} :
             /\ dimages' = Append(dimages,
                              Picture(dimage_urls[didx].tag, ConvertMode(mode)))
             /\ didx' = didx + 1
       \/ /\ didx' = NextAfterError(didx, Len(dimage_urls))
          /\ UNCHANGED dimages
    /\ UNCHANGED <<dtags, dimage_urls, dpagefailed, dpdf, dresult, dpc>>
    /\ UNCHANGED downloadRest

\* lines 55-61: the images are saved as one PDF, if there are any
DlSave ==
    /\ dpc = "images"
    /\ didx > Len(dimage_urls)
    /\ IF dimages # <<>>
       THEN \/ /\ dpdf' = [state |-> "complete", images |-> dimages]
               /\ dresult' = "returned"
            \/ /\ dpdf' = [state |-> "partial", images |-> <<>>]
               /\ dresult' = "raised"
       ELSE /\ dresult' = "returned"
            /\ UNCHANGED dpdf
    /\ dpc' = "done"
    /\ UNCHANGED <<dtags, dimage_urls, didx, dimages, drequests, dpagefailed>>
    /\ UNCHANGED downloadRest

-----------------------------------------------------------------------------
(* Initial states and specifications *)

StripIdle ==
    /\ contents = NoContents
    /\ contents0 = NoContents
    /\ targets = {}
    /\ ops = <<>>
    /\ i = 0
    /\ j = 0
    /\ k = 0
    /\ depth = 0
    /\ start = 0
    /\ end = 0
    /\ removed = 0
    /\ deleted = <<>>
    /\ reassigned = FALSE
    /\ spc = "idle"

NoDisk == [orig |-> NoFile, dest |-> NoFile, tmp |-> NoFile]

PdfIdle ==
    /\ pages = <<>>
    /\ pages0 = <<>>
    /\ images = [o \in ObjIds |-> Form]
    /\ images0 = images
    /\ gamma_targets = NoNames
    /\ pidx = 1
    /\ annotations_removed = 0
    /\ images_scrubbed = 0
    /\ writerPages = <<>>
    /\ ret = NoValue
    /\ exc = FALSE
    /\ disk = NoDisk
    /\ ppc = "idle"

PptxIdle ==
    /\ caller = "none"
    /\ archive = <<>>
    /\ archive0 = <<>>
    /\ lidx = 1
    /\ total_removed = 0
    /\ stripResults = <<>>
    /\ xpc = "idle"

ScrubIdle ==
    /\ scrubCalls = 0
    /\ afterFirst = images

UnlockIdle ==
    /\ uin = MissingFile
    /\ upassword = ""
    /\ uwriter = <<>>
    /\ uout = OutFile("absent", <<>>)
    /\ uopened = FALSE
    /\ uraised = "none"
    /\ uret = NoReturn
    /\ upc = "idle"

NukeIdle ==
    /\ nin = NoArchive
    /\ ndir = [core |-> NoXml, app |-> NoXml]
    /\ nfailed = {}
    /\ nout = NoArchive
    /\ nret = "none"
    /\ npc = "idle"

FetchIdle ==
    /\ fapi = <<>>
    /\ fpage = 0
    /\ fjobs = <<>>
    /\ frequested = <<>>
    /\ fpc = "idle"

MainIdle ==
    /\ mtool = "none"
    /\ menv = NoneValue
    /\ mexists = FALSE
    /\ mio = <<>>
    /\ mexit = NoValue
    /\ mpc = "idle"

ExportIdle ==
    /\ eemail = NoneValue
    /\ epassword = NoneValue
    /\ edriver = "None"
    /\ equits = 0
    /\ eio = <<>>
    /\ eresult = "none"
    /\ epc = "idle"

DownloadIdle ==
    /\ dtags = <<>>
    /\ dimage_urls = <<>>
    /\ didx = 1
    /\ dimages = <<>>
    /\ drequests = <<>>
    /\ dpagefailed = FALSE
    /\ dpdf = NoPdf
    /\ dresult = "none"
    /\ dpc = "idle"

ToolsIdle ==
    /\ UnlockIdle
    /\ NukeIdle
    /\ FetchIdle
    /\ MainIdle
    /\ ExportIdle
    /\ DownloadIdle

\* a call of strip_draw_commands on any page contents and target names
InitStrip ==
    /\ ToolsIdle
    /\ contents \in {Stream(s) : s \in OpLists} \cup {NoContents}
    /\ contents0 = contents
    /\ targets \in TargetSets
    /\ ops = <<>>
    /\ i = 0
    /\ j = 0
    /\ k = 0
    /\ depth = 0
    /\ start = 0
    /\ end = 0
    /\ removed = 0
    /\ deleted = <<>>
    /\ reassigned = FALSE
    /\ spc = "entry"
    /\ PdfIdle
    /\ ScrubIdle
    /\ PptxIdle

NextStrip == StripStep /\ UNCHANGED <<pdfVars, scrubVars, pptxVars, toolVars>>

SpecStrip == InitStrip /\ [][NextStrip]_vars

\* the documents process_pdf is run on
AnnotChoices ==
    { NoAnnots,
      AnnotArray(<<Annot("a1", TRUE, UriOther), Annot("a2", FALSE, NotAStr)>>),
      AnnotArray(<<Annot("a1", TRUE, UriGamma)>>),
      AnnotArray(<<Annot("a1", TRUE, UriOther), Annot("a2", TRUE, UriGammaUpper),
                   Annot("a3", FALSE, NotAStr), Annot("a4", TRUE, NotAStr)>>) }

ResourceChoices ==
    { <<FALSE, FALSE, NoNames>>,
      <<TRUE, FALSE, NoNames>>,
      <<TRUE, TRUE, [n \in {"/Im1"} |-> "o2"]>>,
      <<TRUE, TRUE, [n \in Names |-> IF n = "/Im1" THEN "o1" ELSE "o3"]>> }

ContentChoices ==
    { NoContents,
      Stream(<<OpRect, OpDo("/Im2"), OpSave, OpDo("/Im1"), OpRestore>>) }

PageChoices ==
    { Page(a, r[1], r[2], r[3], c) :
        a \in AnnotChoices, r \in ResourceChoices, c \in ContentChoices }

\* the annotation objects of a freely drawn /Annots array, by position
AnnotIds == <<"a1", "a2", "a3", "a4", "a5">>

\* an annotation's /A: absent, or a dictionary whose /URI is one of these
ActionChoices ==
    { <<FALSE, NotAStr>>, <<TRUE, NotAStr>>, <<TRUE, UriOther>>,
      <<TRUE, UriGamma>>, <<TRUE, UriGammaUpper>> }

\* every /Annots array of up to MaxAnnots annotations, the empty one included
AnnotArrays ==
    UNION {{AnnotArray([x \in 1..n |-> Annot(AnnotIds[x], f[x][1], f[x][2])])
               : f \in [1..n -> ActionChoices]} : n \in 0..MaxAnnots}

\* one-page documents carrying such an array, without and with the logo
AnnotDocuments ==
    { <<Page(a, FALSE, FALSE, NoNames, NoContents)>> : a \in AnnotArrays }
        \cup
    { <<Page(a, TRUE, TRUE, [n \in {"/Im1"} |-> "o1"], NoContents)>>
          : a \in AnnotArrays }

Documents ==
    UNION {[1..n -> PageChoices] : n \in 1..MaxPages} \cup AnnotDocuments

InitPdf ==
    /\ ToolsIdle
    /\ pages \in Documents
    /\ pages0 = pages
    /\ images = [o \in ObjIds |->
                    IF o = "o1" THEN Logo ELSE IF o = "o2" THEN Photo ELSE Form]
    /\ images0 = images
    /\ gamma_targets = NoNames
    /\ pidx = 1
    /\ annotations_removed = 0
    /\ images_scrubbed = 0
    /\ writerPages = <<>>
    /\ ret = NoValue
    /\ exc = FALSE
    /\ disk = [orig |-> SourceFile(pages), dest |-> NoFile, tmp |-> NoFile]
    /\ ppc = "page"
    /\ StripIdle
    /\ ScrubIdle
    /\ PptxIdle

NextPdf ==
    \/ PdfFind
    \/ PdfAnnots
    \/ PdfScrub
    \/ PdfStrip
    \/ PdfAddPage
    \/ PdfReturnZero
    \/ PdfMkTmp
    \/ PdfWrite
    \/ PdfWriteFail
    \/ PdfReplace
    \/ PdfFinally
    \/ PdfKilled

SpecPdf == InitPdf /\ [][NextPdf]_vars

\* the image objects scrub_gamma_images may be handed
ImageChoices ==
    { [Subtype |-> "/Image", Width |-> w, Height |-> h,
       BitsPerComponent |-> bpc, ColorSpace |-> cs, Length |-> Len(d),
       data |-> d, opt |-> opt] :
        w \in {GAMMA_IMG_WIDTH, 1}, h \in {GAMMA_IMG_HEIGHT, 1},
        bpc \in {8, 1}, cs \in {"/DeviceRGB", "/Indexed"},
        d \in {LogoData, BLANK_PIXEL},
        opt \in SUBSET (OptionalKeys \cup {"/Interpolate"}) }

TargetDicts ==
    { NoNames,
      [n \in {"/Im1"} |-> "o1"],
      [n \in Names |-> IF n = "/Im1" THEN "o1" ELSE "o2"],
      [n \in Names |-> "o1"] }

InitScrub ==
    /\ ToolsIdle
    /\ images \in {[o \in ObjIds |->
                       IF o = "o1" THEN a ELSE IF o = "o2" THEN b ELSE Form] :
                     a \in ImageChoices, b \in {Logo, Photo}}
    /\ images0 = images
    /\ gamma_targets \in TargetDicts
    /\ pages = <<Page(NoAnnots, TRUE, TRUE,
                      [n \in Names |-> IF n \in DOMAIN gamma_targets
                                       THEN gamma_targets[n] ELSE "o3"],
                      NoContents)>>
    /\ pages0 = pages
    /\ pidx = 1
    /\ annotations_removed = 0
    /\ images_scrubbed = 0
    /\ writerPages = <<>>
    /\ ret = NoValue
    /\ exc = FALSE
    /\ disk = NoDisk
    /\ ppc = "scrubonly"
    /\ StripIdle
    /\ ScrubIdle
    /\ PptxIdle

NextScrub == ScrubCall

SpecScrub == InitScrub /\ [][NextScrub]_vars

\* XObjects whose dimensions are the logo's or one pixel off
NearLogoChoices ==
    { XObj(st, w, h, 8, "/DeviceRGB", LogoData, {"/Filter"}) :
        st \in {"/Image", "/Form"},
        w \in (GAMMA_IMG_WIDTH - 1)..(GAMMA_IMG_WIDTH + 1),
        h \in (GAMMA_IMG_HEIGHT - 1)..(GAMMA_IMG_HEIGHT + 1) }

\* /Resources of the page: absent or empty, without /XObject, or naming
\* objects of the document
FindResourceChoices ==
    ResourceChoices
        \cup { <<TRUE, TRUE, NoNames>>,
               <<TRUE, TRUE, [n \in Names |-> IF n = "/Im1" THEN "o2" ELSE "o1"]>>,
               <<TRUE, TRUE, [n \in Names |-> "o1"]>> }

\* a call of find_gamma_xobjects on any such page
InitFind ==
    /\ ToolsIdle
    /\ images \in {[o \in ObjIds |->
                       IF o = "o1" THEN a ELSE IF o = "o2" THEN b ELSE Form] :
                     a \in NearLogoChoices, b \in {Logo, Photo}}
    /\ images0 = images
    /\ pages \in { <<Page(a, r[1], r[2], r[3], NoContents)>> :
                     a \in {NoAnnots, AnnotArray(<<Annot("a1", TRUE, UriGamma)>>)},
                     r \in FindResourceChoices }
    /\ pages0 = pages
    /\ gamma_targets = NoNames
    /\ pidx = 1
    /\ annotations_removed = 0
    /\ images_scrubbed = 0
    /\ writerPages = <<>>
    /\ ret = NoValue
    /\ exc = FALSE
    /\ disk = NoDisk
    /\ ppc = "findonly"
    /\ StripIdle
    /\ ScrubIdle
    /\ PptxIdle

NextFind == FindCall

SpecFind == InitFind /\ [][NextFind]_vars

\* the archives the PPTX remover is run on
RelsChoices ==
    { NoPart,
      ProducerXml(<<Rel("rId1", TypeImage, UriOther.chars)>>),
      ProducerXml(<<Rel("rId1", TypeImage, UriOther.chars),
                    Rel("rId3", TypeHyperlink, UriOther.chars)>>),
      ProducerXml(<<Rel("rId1", TypeImage, UriOther.chars),
                    Rel("rId2", TypeHyperlink, UriGammaUpper.chars),
                    Rel("rId3", TypeHyperlink, UriOther.chars)>>),
      ProducerXml(<<Rel("rId2", TypeHyperlink, UriGamma.chars),
                    Rel("rId1", TypeImage, UriGamma.chars)>>),
      ProducerXml(<<Rel("", TypeHyperlink, UriGamma.chars),
                    Rel("rId2", TypeImage, UriGamma.chars)>>) }

Sp == Shape("sp", <<>>, <<>>, <<>>)
LinkedSp == Shape("sp", <<"rId2">>, <<>>, <<>>)
GammaPic == Shape("pic", <<"rId2">>, <<"rId1">>, <<>>)
OtherPic == Shape("pic", <<"rId3">>, <<"rId1", "">>, <<>>)

ShapeTreeChoices ==
    { <<Sp>>,
      <<Sp, GammaPic, OtherPic>>,
      <<Shape("grpSp", <<>>, <<>>, <<GammaPic, Sp>>), LinkedSp>>,
      <<OtherPic, LinkedSp>> }

LayoutChoices ==
    { Layout(ProducerXml(t), r) : t \in ShapeTreeChoices, r \in RelsChoices }

Archives == UNION {[1..n -> LayoutChoices] : n \in 1..MaxLayouts}

InitPptx ==
    /\ ToolsIdle
    /\ caller \in {"main", "streamlit"}
    /\ archive = <<>>
    /\ archive0 = <<>>
    /\ lidx = 1
    /\ total_removed = 0
    /\ stripResults = <<>>
    /\ xpc = IF caller = "streamlit" THEN "copy" ELSE "load"
    /\ \E a \in Archives :
          disk = [orig |-> SourceFile(a), dest |-> NoFile, tmp |-> NoFile]
    /\ pages = <<>>
    /\ pages0 = <<>>
    /\ images = [o \in ObjIds |-> Form]
    /\ images0 = images
    /\ gamma_targets = NoNames
    /\ pidx = 1
    /\ annotations_removed = 0
    /\ images_scrubbed = 0
    /\ writerPages = <<>>
    /\ ret = NoValue
    /\ exc = FALSE
    /\ ppc = "idle"
    /\ StripIdle
    /\ ScrubIdle

NextPptx ==
    \/ PptxCopy
    \/ PptxLoad
    \/ PptxLayout
    \/ PptxReturnZero
    \/ WaMkTmp
    \/ WaWrite
    \/ WaWriteFail
    \/ WaReplace
    \/ WaFinally
    \/ WaKilled

SpecPptx == InitPptx /\ [][NextPptx]_vars

\* a picture whose second link is the gamma one; a group of three shapes
TwoLinkPic == Shape("pic", <<"rId3", "rId2">>, <<"rId4">>, <<>>)
Group == Shape("grpSp", <<>>, <<>>, <<GammaPic, Sp, OtherPic>>)

ShapePool == {Sp, LinkedSp, GammaPic, OtherPic, TwoLinkPic, Group}

\* every shape tree of up to MaxShapes top-level shapes
ShapeTrees == UNION {[1..n -> ShapePool] : n \in 0..MaxShapes}

MixedRels ==
    ProducerXml(<<Rel("rId4", TypeImage, UriOther.chars),
                  Rel("rId2", TypeHyperlink, UriGamma.chars),
                  Rel("rId1", TypeImage, UriOther.chars),
                  Rel("rId3", TypeHyperlink, UriOther.chars),
                  Rel("rId5", TypeImage, UriGamma.chars)>>)

\* a call of strip_gamma_from_layout on any such layout and rels part
InitLayout ==
    /\ ToolsIdle
    /\ StripIdle
    /\ PdfIdle
    /\ ScrubIdle
    /\ caller = "none"
    /\ archive \in { <<Layout(ProducerXml(t), r)>> :
                       t \in ShapeTrees, r \in RelsChoices \cup {MixedRels} }
    /\ archive0 = archive
    /\ lidx = 1
    /\ total_removed = 0
    /\ stripResults = <<>>
    /\ xpc = "striponly"

NextLayout == LayoutCall

SpecLayout == InitLayout /\ [][NextLayout]_vars


\* either remover, run on a file
InitFiles == InitPdf \/ InitPptx

NextFiles == NextPdf \/ NextPptx

SpecFiles == InitFiles /\ [][NextFiles]_vars

\* the remover tools at rest
RemoversIdle == StripIdle /\ PdfIdle /\ ScrubIdle /\ PptxIdle

\* the files unlock_pdf is called on
UnlockInputs ==
    {MissingFile, CorruptFile}
        \cup {PdfFile(enc, n) : enc \in BOOLEAN, n \in 0..MaxUnlockPages}

\* a call of unlock_pdf on any input file, password and output path
InitUnlock ==
    /\ RemoversIdle
    /\ NukeIdle
    /\ FetchIdle
    /\ MainIdle
    /\ ExportIdle
    /\ DownloadIdle
    /\ uin \in UnlockInputs
    /\ upassword \in {UserPassword, OwnerPassword, "wrong"}
    /\ uwriter = <<>>
    /\ uout \in {OutFile("absent", <<>>), OutFile("old", <<>>)}
    /\ uopened = FALSE
    /\ uraised = "none"
    /\ uret = NoReturn
    /\ upc = "open"

NextUnlock ==
    \/ UnlockOpen
    \/ UnlockCheck
    \/ UnlockAddPage
    \/ UnlockOpenOut
    \/ UnlockWrite
    \/ UnlockExcept

SpecUnlock == InitUnlock /\ [][NextUnlock]_vars

CoreChoices ==
    {NoXml,
     Xml(<<El("dc", "creator", "Alice"), El("cp", "revision", "3")>>),
     Xml(<<El("dc", "title", "Plan"),
           El("dcterms", "created", "2024-05-01T10:00:00Z"),
           El("", "keywords", "secret")>>),
     Xml(<<El("cp", "revision", "3")>>),
     BadXml(<<El("dc", "creator", "Alice")>>)}

AppChoices ==
    {NoXml,
     Xml(<<El("ep", "Company", "Acme"), El("ep", "Application", "Slides")>>),
     Xml(<<El("ep", "Application", "Slides")>>),
     BadXml(<<El("ep", "Manager", "Bob")>>)}

\* a call of nuke_pptx_metadata on any input file
InitNuke ==
    /\ RemoversIdle
    /\ UnlockIdle
    /\ FetchIdle
    /\ MainIdle
    /\ ExportIdle
    /\ DownloadIdle
    /\ nin \in {NotAZip} \cup {Pptx(c, a) : c \in CoreChoices, a \in AppChoices}
    /\ ndir = [core |-> NoXml, app |-> NoXml]
    /\ nfailed = {}
    /\ nout = NoArchive
    /\ nret = "none"
    /\ npc = "extract"

NextNuke ==
    \/ NukeExtract
    \/ NukeScrubCore
    \/ NukeScrubApp
    \/ NukeZip

SpecNuke == InitNuke /\ [][NextNuke]_vars

\* how many jobs a page of the API may hold
BatchSizes == {0, 1, FullBatch - 1, FullBatch, FullBatch + 1}

\* the finite lists of pages the API may serve
Apis ==
    UNION {{[p \in 1..n |-> Batch(p - 1, sz[p])] : sz \in [1..n -> BatchSizes]}
              : n \in 0..MaxApiPages}

\* a call of fetch_applied_jobs against any such API
InitFetch ==
    /\ RemoversIdle
    /\ UnlockIdle
    /\ NukeIdle
    /\ MainIdle
    /\ ExportIdle
    /\ DownloadIdle
    /\ fapi \in Apis
    /\ fpage = 0
    /\ fjobs = <<>>
    /\ frequested = <<>>
    /\ fpc = "loop"

NextFetch ==
    \/ FetchPage
    \/ FetchFail

SpecFetch == InitFetch /\ [][NextFetch]_vars

\* os.getenv of the remover's variable: unset, empty, or a path
EnvChoices == {NoneValue, StrOf(""), StrOf("deck"), StrOf("~/deck")}

\* the arguments export_applied_jobs may be given
CredentialChoices == {NoneValue, StrOf(""), StrOf("secret")}

\* a run of a remover's main and a call of export_applied_jobs, each under
\* any configuration
InitConfig ==
    /\ RemoversIdle
    /\ UnlockIdle
    /\ NukeIdle
    /\ FetchIdle
    /\ DownloadIdle
    /\ mtool \in {"pdf", "pptx"}
    /\ menv \in EnvChoices
    /\ mexists \in BOOLEAN
    /\ mio = <<>>
    /\ mexit = NoValue
    /\ mpc = "env"
    /\ eemail \in CredentialChoices
    /\ epassword \in CredentialChoices
    /\ edriver = "None"
    /\ equits = 0
    /\ eio = <<>>
    /\ eresult = "none"
    /\ epc = "check"

NextConfig ==
    \/ MainEnv
    \/ MainExists
    \/ MainRun
    \/ ExportCheck
    \/ ExportBuildDriver
    \/ ExportLogin
    \/ ExportSession
    \/ ExportFetch
    \/ ExportSerialize
    \/ ExportWrite
    \/ ExportFinally

SpecConfig == InitConfig /\ [][NextConfig]_vars

\* the img tags a page may hold
ImgChoices ==
    { Img(cl, src) : cl \in {{"wp-image-12", "size-full"}, {"thumb"}},
                     src \in {"", "u1", "u2"} }

Pages == UNION {[1..n -> ImgChoices] : n \in 0..MaxImgTags}

\* a call of download_and_create_pdf on any such page
InitDownload ==
    /\ RemoversIdle
    /\ UnlockIdle
    /\ NukeIdle
    /\ FetchIdle
    /\ MainIdle
    /\ ExportIdle
    /\ dtags \in Pages
    /\ dimage_urls = <<>>
    /\ didx = 1
    /\ dimages = <<>>
    /\ drequests = <<>>
    /\ dpagefailed = FALSE
    /\ dpdf = NoPdf
    /\ dresult = "none"
    /\ dpc = "page"

NextDownload ==
    \/ DlFetchPage
    \/ DlImage
    \/ DlSave

SpecDownload == InitDownload /\ [][NextDownload]_vars

-----------------------------------------------------------------------------
(* Vocabulary of the properties of strip_draw_commands *)

In0 == contents0.operations

\* the operator draws, by name, one of the names in tn
DrawsTarget(op, tn) ==
    op.operator = "Do" /\ Len(op.operands) > 0 /\ op.operands[1] \in tn

TargetDos(s, tn) == {p \in 1..Len(s) : DrawsTarget(s[p], tn)}

\* pushes minus pops of s[a..b]
RECURSIVE Net(_, _, _)
Net(s, a, b) ==
    IF b < a THEN 0
    ELSE Net(s, a, b - 1)
         + (IF s[b].operator = "q" THEN 1 ELSE 0)
         - (IF s[b].operator = "Q" THEN 1 ELSE 0)

Balanced(s) ==
    /\ \A n \in 1..Len(s) : Net(s, 1, n) >= 0
    /\ Net(s, 1, Len(s)) = 0

\* the q at a is still open just before position p
OpenAt(s, a, p) ==
    /\ a < p
    /\ s[a].operator = "q"
    /\ \A b \in a..(p - 1) : Net(s, a, b) > 0

Enclosing(s, p) == {a \in 1..Len(s) : OpenAt(s, a, p)}

Innermost(s, p) == CHOOSE a \in Enclosing(s, p) : \A c \in Enclosing(s, p) : c <= a

\* the Q that closes the q at a
Closes(s, a) ==
    CHOOSE b \in (a + 1)..Len(s) :
        /\ Net(s, a, b) = 0
        /\ \A c \in a..(b - 1) : Net(s, a, c) > 0

Without(s, a, b) == [n \in 1..(Len(s) - (b - a + 1)) |->
                        IF n < a THEN s[n] ELSE s[n + (b - a + 1)]]

\* the case of C1: balanced, one target Do, inside a bracket
OneBracketedTarget ==
    /\ contents0.present
    /\ Balanced(In0)
    /\ Cardinality(TargetDos(In0, targets)) = 1
    /\ \A p \in TargetDos(In0, targets) : Enclosing(In0, p) # {}

\* C1: on a balanced stream with exactly one target Do that lies inside a
\* q...Q bracket, strip_draw_commands deletes exactly the operators from the
\* innermost enclosing q through its matching Q, keeps every other operator
\* in order, and returns 1.
C1_InnermostBracketExcised ==
    (spc = "done" /\ OneBracketedTarget) =>
        \A p \in TargetDos(In0, targets) :
            LET a == Innermost(In0, p)
                b == Closes(In0, a)
            IN /\ ops = Without(In0, a, b)
               /\ removed = 1
               /\ contents = Stream(ops)

\* the Do sits in the inner of two nested brackets and operators survive
C1_Witness ==
    /\ spc = "done"
    /\ OneBracketedTarget
    /\ \A p \in TargetDos(In0, targets) : Cardinality(Enclosing(In0, p)) >= 2
    /\ removed = 1
    /\ Len(ops) >= 2

\* C2: a target Do with no enclosing unmatched q before it is removed alone:
\* the span about to be deleted is the Do's own index only.
C2_BareDoRemovedAlone ==
    (spc = "del" /\ Enclosing(ops, i + 1) = {}) => (start = i /\ end = i)

\* C3: when strip_draw_commands has finished, no Do whose first operand is a
\* target name remains in the operator list.
C3_NoTargetDoRemains ==
    spc = "done" => TargetDos(ops, targets) = {}

\* C4: a balanced operator list stays balanced: the list is balanced after
\* every deletion and at the end, and every span deleted is itself a
\* balanced run of operators (no half of a bracket).
C4_BalancePreserved ==
    (contents0.present /\ Balanced(In0)) =>
        /\ Balanced(ops)
        /\ Balanced(contents.operations)
        /\ spc = "del" => Balanced(SubSeq(ops, start + 1, end + 1))

\* two spans were deleted from a balanced list and operators survive
C4_Witness ==
    /\ spc = "done"
    /\ contents0.present
    /\ Balanced(In0)
    /\ \E n \in 1..Len(In0) : In0[n].operator = "q"
    /\ removed = 2
    /\ ops # <<>>

\* C5: the count returned is the number of spans deleted, and a target Do
\* that went away inside a span deleted for an earlier hit is not counted:
\* the count plus the target Dos still in the list never exceeds the target
\* Dos of the input.
C5_CountIsSpansDeleted ==
    spc # "entry" =>
        /\ removed = Len(deleted)
        /\ removed + Cardinality(TargetDos(ops, targets))
               <= Cardinality(TargetDos(In0, targets))

\* two target Dos went away in one deleted span and were counted once
C5_Witness ==
    /\ spc = "done"
    /\ Cardinality(TargetDos(In0, targets)) = 2
    /\ TargetDos(ops, targets) = {}
    /\ removed = 1
    /\ Len(deleted) = 1
-----------------------------------------------------------------------------
(* Vocabulary of the properties of process_pdf and the PPTX remover *)

\* the annotation links to gamma.app
LinksToGamma(a) == a.hasA /\ a.URI \in {UriGamma, UriGammaUpper}

GammaLinks(page) ==
    {n \in 1..Len(page.Annots.items) : LinksToGamma(page.Annots.items[n])}

\* the objects the page's resources name
ObjectsOf(page) ==
    IF page.hasResources /\ page.hasXObject
    THEN {page.XObject[n] : n \in DOMAIN page.XObject}
    ELSE {}

\* an image resource of the page has the target width and height
HasTargetImage(page, heap) ==
    \E o \in ObjectsOf(page) :
        /\ heap[o].Subtype = "/Image"
        /\ heap[o].Width = 575
        /\ heap[o].Height = 137

NoTargetImageAnywhere ==
    \A n \in 1..Len(pages0) : ~HasTargetImage(pages0[n], images0)

RECURSIVE SumGammaLinks(_)
SumGammaLinks(n) ==
    IF n = 0 THEN 0
    ELSE SumGammaLinks(n - 1) + Cardinality(GammaLinks(pages0[n]))

\* the page has no matching annotation and no target-dimension image
NothingToRemove(n) ==
    /\ GammaLinks(pages0[n]) = {}
    /\ ~HasTargetImage(pages0[n], images0)

InFileWrite(pc) == pc \in {"write", "replace", "finally", "raised", "killed"}

\* C6: the file at the original path is never partially written: at every
\* step of process_pdf and of write_archive, failures included, it holds its
\* complete pre-run content or the complete new content, and it holds the
\* new content only once os.replace has run.
C6_OriginalNeverPartial ==
    /\ ppc # "idle" =>
          /\ disk.orig \in {SourceFile(pages0),
                            WrittenFile("complete", writerPages)}
          /\ disk.orig.by = "writer" => ppc \in {"finally", "returned", "killed"}
    /\ xpc \notin {"idle", "copy", "load"} =>
          /\ disk[TargetPath] \in {SourceFile(archive0),
                                   WrittenFile("complete", archive)}
          /\ disk[TargetPath].by = "writer" =>
                 xpc \in {"finally", "returned", "killed"}

\* the write of the new PDF failed half way and the original is as it was
C6_Witness ==
    /\ ppc = "finally"
    /\ exc
    /\ disk.tmp.state = "partial"
    /\ disk.orig = SourceFile(pages0)

\* C7 as stated: with no image of the target width and height on any page,
\* process_pdf returns 0 and leaves every page's annotation list unchanged.
C7_NoImageMeansNoRemoval ==
    (ppc = "returned" /\ NoTargetImageAnywhere) =>
        /\ ret = 0
        /\ \A n \in 1..Len(pages0) : pages[n].Annots = pages0[n].Annots

\* C7 amended: with no image of the target width and height on any page,
\* process_pdf scrubs no image and returns the number of annotations linking
\* to gamma.app that it removed; the annotation list of every page without
\* such an annotation is unchanged (so with no such annotation anywhere it
\* returns 0 and every list is unchanged).
C7_NoImageOnlyAnnotationsCount ==
    (ppc = "returned" /\ NoTargetImageAnywhere) =>
        /\ images_scrubbed = 0
        /\ images = images0
        /\ ret = SumGammaLinks(Len(pages0))
        /\ \A n \in 1..Len(pages0) :
              GammaLinks(pages0[n]) = {} => pages[n].Annots = pages0[n].Annots

\* no target image; annotations were removed on one page and a page with
\* images and annotations kept its list
C7_Witness ==
    /\ ppc = "returned"
    /\ NoTargetImageAnywhere
    /\ ret >= 1
    /\ \E n \in 1..Len(pages0) :
          /\ ObjectsOf(pages0[n]) # {}
          /\ pages0[n].Annots.present
          /\ pages[n].Annots = pages0[n].Annots

\* the archive has no hyperlink relationship whose target matches gamma.app
NoGammaRelAnywhere(a) ==
    \A n \in 1..Len(a) :
        \A m \in 1..Len(a[n].rels.tree) :
            ~(/\ a[n].rels.tree[m].Type = TypeHyperlink
              /\ a[n].rels.tree[m].Target \in {UriGamma.chars, UriGammaUpper.chars})

\* C8: for an archive with no hyperlink relationship to gamma.app, every
\* call of strip_gamma_from_layout returns its input bytes with changed =
\* FALSE, zero removals are reported, write_archive is never entered, and
\* the wrapper's output is a byte-identical copy of the source.
C8_NoGammaRelNothingRewritten ==
    (xpc \notin {"idle", "copy", "load"} /\ NoGammaRelAnywhere(archive0)) =>
        /\ \A n \in 1..Len(stripResults) :
              /\ ~stripResults[n].changed
              /\ stripResults[n].layout = archive0[n].layout
              /\ stripResults[n].rels = archive0[n].rels
        /\ total_removed = 0
        /\ ~InFileWrite(xpc)
        /\ disk.tmp = NoFile
        /\ disk.orig = SourceFile(archive0)
        /\ caller = "streamlit" => disk.dest = disk.orig
        /\ xpc = "returned" => ret = 0

\* the wrapper has returned on a two-layout archive with pictures and
\* hyperlinks, none to gamma.app
C8_Witness ==
    /\ xpc = "returned"
    /\ caller = "streamlit"
    /\ NoGammaRelAnywhere(archive0)
    /\ Len(archive0) = 2
    /\ Len(stripResults) = 2
    /\ \E n \in 1..2 :
          /\ \E m \in 1..Len(archive0[n].rels.tree) :
                archive0[n].rels.tree[m].Type = TypeHyperlink
          /\ \E m \in 1..Len(archive0[n].layout.tree) :
                archive0[n].layout.tree[m].tag = "pic"

\* C9: a page with no matching annotation and no target-dimension image is
\* left as read by process_pdf (annotations, resources, the image objects
\* they name, contents); /Contents is reassigned only when a span was
\* removed; and when every page is such a page process_pdf returns 0 and
\* never writes or replaces a file.
C9_UnmatchedPagesUntouched ==
    /\ reassigned => removed >= 1
    /\ ppc # "idle" =>
          /\ \A n \in 1..Len(pages0) :
                NothingToRemove(n) =>
                    /\ pages[n] = pages0[n]
                    /\ \A o \in ObjectsOf(pages0[n]) : images[o] = images0[o]
                    /\ (ppc = "strip" /\ pidx = n) =>
                          (~reassigned /\ contents = pages0[n].Contents)
          /\ (\A n \in 1..Len(pages0) : NothingToRemove(n)) =>
                /\ ~InFileWrite(ppc)
                /\ disk = [orig |-> SourceFile(pages0), dest |-> NoFile,
                           tmp |-> NoFile]
                /\ ppc = "returned" => ret = 0

\* process_pdf has returned on two pages with annotations, images and
\* draw commands, none of them a match
C9_Witness ==
    /\ ppc = "returned"
    /\ Len(pages0) = 2
    /\ \A n \in 1..2 : NothingToRemove(n)
    /\ \E n \in 1..2 :
          /\ pages0[n].Annots.present
          /\ ObjectsOf(pages0[n]) # {}
          /\ pages0[n].Contents.present

\* the state scrubbing leaves an image in
IsBlank(img) ==
    /\ img.data = <<0, 0, 0>>
    /\ img.Width = 1
    /\ img.Height = 1
    /\ img.BitsPerComponent = 8
    /\ img.ColorSpace = "/DeviceRGB"
    /\ img.Length = 3
    /\ img.opt \cap {"/Filter", "/DecodeParms", "/SMask", "/Mask"} = {}

\* C10: scrubbing is idempotent: after one application every target image
\* is the blank 1x1 image, and a further application to the same targets
\* leaves every image object exactly as the first one left it.
C10_ScrubIdempotent ==
    ppc = "scrubonly" =>
        /\ scrubCalls >= 1 =>
              \A n \in DOMAIN gamma_targets : IsBlank(images[gamma_targets[n]])
        /\ scrubCalls >= 2 => images = afterFirst

\* two distinct images with filters and masks were scrubbed twice
C10_Witness ==
    /\ ppc = "scrubonly"
    /\ scrubCalls = 2
    /\ Cardinality({gamma_targets[n] : n \in DOMAIN gamma_targets}) = 2
    /\ \A n \in DOMAIN gamma_targets :
          /\ images0[gamma_targets[n]].opt # {}
          /\ ~IsBlank(images0[gamma_targets[n]])

-----------------------------------------------------------------------------
(* unlock_pdf *)

\* the call can get past the password check: the file is readable and, if it
\* is encrypted, the password is the user or the owner password
Unlockable ==
    /\ uin.exists
    /\ uin.wellformed
    /\ uin.is_encrypted => upassword \in {UserPassword, OwnerPassword}

\* C11: a call of unlock_pdf on an encrypted PDF with the correct password,
\* or on an unencrypted PDF, in which opening and writing the output raise
\* nothing returns True, and the output document then holds exactly the
\* input's pages: the same count, in the same order.  Whenever True is
\* returned the output is that complete copy.
C11_UnlockCopiesEveryPage ==
    /\ (upc = "returned" /\ Unlockable /\ uraised = "none")
           => /\ uret.ok
              /\ uret.message = IF uin.is_encrypted THEN "unlocked"
                                ELSE "notprotected"
    /\ (upc = "returned" /\ uret.ok)
           => /\ Unlockable
              /\ uout = OutFile("complete", uin.pages)

C11_Witness ==
    /\ upc = "returned"
    /\ uin.is_encrypted
    /\ upassword = UserPassword
    /\ Len(uin.pages) >= 2
    /\ uret.ok
    /\ uout.pages = uin.pages

\* C12: no exception leaves unlock_pdf: a call that raised inside the try
\* block returns (False, message); a call with an incorrect password on an
\* encrypted PDF returns (False, message) and has never opened or written the
\* output file.
C12_NoExceptionEscapes ==
    /\ upc # "escaped"
    /\ (upc = "returned" /\ uraised # "none")
           => /\ ~uret.ok
              /\ uret.message \in {"notfound", "unexpected"}
    /\ (uin.exists /\ uin.wellformed /\ uin.is_encrypted
            /\ ~Truthy(decrypt(upassword)))
           => /\ ~uopened
              /\ uout.state \in {"absent", "old"}
              /\ upc = "returned" => uret = Return(FALSE, "incorrect")

C12_Witness ==
    /\ upc = "returned"
    /\ uraised = "OSError"
    /\ uopened
    /\ ~uret.ok

-----------------------------------------------------------------------------
(* nuke_pptx_metadata *)

\* every element of the part whose local name is in the list carries the
\* scrubbed text
PartScrubbed(part, tags) ==
    \A x \in 1..Len(part.elems) :
        part.elems[x].local \in tags
            => part.elems[x].text = IF part.elems[x].local \in DateTags
                                    THEN EpochDate ELSE ""

\* C13: whenever nuke_pptx_metadata returns True, every element of
\* docProps/core.xml and docProps/app.xml of the output archive whose local
\* name is in the scrub list has the scrubbed text, and a call in which
\* scrubbing one of the two parts failed returns False.
C13_TrueOnlyIfScrubbed ==
    (npc = "returned" /\ nret = "True")
        => /\ PartScrubbed(nout.core, CoreTags)
           /\ PartScrubbed(nout.app, AppTags)
           /\ nfailed = {}

-----------------------------------------------------------------------------
(* fetch_applied_jobs *)

RECURSIVE ConcatPages(_, _)
\* the jobs of the first n pages, in page order
ConcatPages(api, n) ==
    IF n = 0 THEN <<>> ELSE ConcatPages(api, n - 1) \o api[n]

\* the number of pages up to and including the first one holding fewer than
\* FullBatch jobs; all of them when there is none
PagesRead(api) ==
    IF \E n \in 1..Len(api) : Len(api[n]) < FullBatch
    THEN CHOOSE n \in 1..Len(api) :
             /\ Len(api[n]) < FullBatch
             /\ \A m \in 1..(n - 1) : Len(api[m]) >= FullBatch
    ELSE Len(api)

\* every page before the last holds at least FullBatch jobs
OnlyLastPageShort(api) ==
    \A n \in 1..(Len(api) - 1) : Len(api[n]) >= FullBatch

-----------------------------------------------------------------------------
(* process_pdf: annotations *)

RECURSIVE WithoutGammaLinks(_)
\* the list without the annotations that link to gamma.app, order kept
WithoutGammaLinks(items) ==
    IF items = <<>> THEN <<>>
    ELSE IF LinksToGamma(items[1]) THEN WithoutGammaLinks(Tail(items))
         ELSE <<items[1]>> \o WithoutGammaLinks(Tail(items))

\* /Annots of a page after the run: the original entry when nothing links to
\* gamma.app, no entry when the removal leaves nothing, else the rest
ExpectedAnnots(a0) ==
    IF WithoutGammaLinks(a0.items) = a0.items THEN a0
    ELSE IF WithoutGammaLinks(a0.items) = <<>> THEN NoAnnots
         ELSE AnnotArray(WithoutGammaLinks(a0.items))

\* C15: once process_pdf is past a page, the page's annotation list is the
\* original list without the annotations whose action's /URI is a string
\* containing gamma.app in any letter case, the others in their original
\* order, and /Annots is gone when the removal left none; the pages written
\* carry these lists, and the value returned counts each removed annotation
\* once, next to the scrubbed images.
C15_AnnotationsFiltered ==
    /\ \A n \in 1..(pidx - 1) :
          /\ pages[n].Annots = ExpectedAnnots(pages0[n].Annots)
          /\ writerPages[n].Annots = ExpectedAnnots(pages0[n].Annots)
    /\ ppc = "returned"
          => /\ pidx = Len(pages0) + 1
             /\ ret = SumGammaLinks(Len(pages0)) + images_scrubbed
             /\ ret > 0 => disk.orig.data = writerPages

C15_Witness ==
    /\ ppc = "returned"
    /\ Len(pages0[1].Annots.items) = 3
    /\ LinksToGamma(pages0[1].Annots.items[2])
    /\ pages0[1].Annots.items[2].URI = UriGammaUpper
    /\ Len(pages[1].Annots.items) = 2
    /\ ret = 1

-----------------------------------------------------------------------------
(* find_gamma_xobjects *)

\* the names of the page's /XObject dictionary, none without /Resources or
\* without /XObject
XObjectNames(page) ==
    IF page.hasResources /\ page.hasXObject THEN DOMAIN page.XObject ELSE {}

\* C16: find_gamma_xobjects returns the mapping from exactly those resource
\* names whose object is an image of width 575 and height 137 to that
\* object; the mapping is empty for a page without resources or without an
\* XObject dictionary; the page and the image objects are as before the call.
C16_FindExactDimensions ==
    ppc = "found" =>
        /\ DOMAIN gamma_targets =
              { n \in XObjectNames(pages0[1]) :
                  /\ images0[pages0[1].XObject[n]].Subtype = "/Image"
                  /\ images0[pages0[1].XObject[n]].Width = 575
                  /\ images0[pages0[1].XObject[n]].Height = 137 }
        /\ \A n \in DOMAIN gamma_targets :
              gamma_targets[n] = pages0[1].XObject[n]
        /\ (~pages0[1].hasResources \/ ~pages0[1].hasXObject)
              => gamma_targets = NoNames
        /\ pages = pages0
        /\ images = images0

\* one name is an image one pixel too wide, the other is the logo
C16_Witness ==
    /\ ppc = "found"
    /\ XObjectNames(pages0[1]) = Names
    /\ images0["o1"].Subtype = "/Image"
    /\ images0["o1"].Width = 576
    /\ images0["o1"].Height = 137
    /\ pages0[1].XObject["/Im2"] = "o1"
    /\ DOMAIN gamma_targets = {"/Im1"}

-----------------------------------------------------------------------------
(* scrub_gamma_images *)

\* the objects the target names stand for
TargetObjects == {gamma_targets[n] : n \in DOMAIN gamma_targets}

\* C17: after scrub_gamma_images every object is still the object it was: a
\* targeted image differs from what it was only in its payload and in
\* /Width, /Height, /BitsPerComponent, /ColorSpace, /Length, /Filter,
\* /DecodeParms, /SMask and /Mask; every other object is untouched; the
\* page's resource dictionary and the targets map the same names to the
\* same objects; the count returned is the number of target names.
C17_ScrubKeepsIdentity ==
    scrubCalls >= 1 =>
        /\ DOMAIN afterFirst = DOMAIN images0
        /\ \A o \in TargetObjects :
              /\ afterFirst[o].Subtype = images0[o].Subtype
              /\ afterFirst[o].opt \ OptionalKeys = images0[o].opt \ OptionalKeys
        /\ \A o \in DOMAIN images0 \ TargetObjects :
              afterFirst[o] = images0[o]
        /\ pages = pages0
        /\ \A n \in DOMAIN gamma_targets :
              gamma_targets[n] = pages0[1].XObject[n]
        /\ images_scrubbed = Cardinality(DOMAIN gamma_targets)

\* two names, two objects; the first loses its mask and keeps /Interpolate
C17_Witness ==
    /\ scrubCalls = 1
    /\ DOMAIN gamma_targets = Names
    /\ gamma_targets["/Im1"] # gamma_targets["/Im2"]
    /\ images0["o1"].opt = {"/SMask", "/Interpolate"}
    /\ images["o1"].opt = {"/Interpolate"}
    /\ images["o1"].data = BLANK_PIXEL
    /\ images["o3"] = images0["o3"]
    /\ images_scrubbed = 2

-----------------------------------------------------------------------------
(* strip_gamma_from_layout *)

\* the Ids of the hyperlink relationships whose Target contains gamma.app in
\* some letter case
GammaRelIds(rels) ==
    {rels[n].Id : n \in {m \in 1..Len(rels) :
                            /\ rels[m].Type = TypeHyperlink
                            /\ rels[m].Target \in {UriGamma.chars,
                                                   UriGammaUpper.chars}}} \ {""}

\* a p:pic with a descendant a:hlinkClick whose r:id is one of the ids
LinkedPic(shape, ids) ==
    /\ shape.tag = "pic"
    /\ \E n \in 1..Len(shape.hlinks) : shape.hlinks[n] \in ids

RECURSIVE Pruned(_, _)
\* the shapes without those pictures, at both levels, order kept
Pruned(shapes, ids) ==
    IF shapes = <<>> THEN <<>>
    ELSE IF LinkedPic(shapes[1], ids) THEN Pruned(Tail(shapes), ids)
         ELSE <<[shapes[1] EXCEPT !.children = Pruned(@, ids)]>>
                  \o Pruned(Tail(shapes), ids)

\* the shapes of the tree, children included
AllShapes(shapes) ==
    {shapes[n] : n \in 1..Len(shapes)}
        \cup UNION {{shapes[n].children[c] : c \in 1..Len(shapes[n].children)}
                       : n \in 1..Len(shapes)}

\* the r:embed ids of the blips of the pictures that go
RemovedEmbeds(shapes, ids) ==
    UNION {{sh.embeds[n] : n \in 1..Len(sh.embeds)}
              : sh \in {x \in AllShapes(shapes) : LinkedPic(x, ids)}} \ {""}

RECURSIVE RelsWithout(_, _)
\* the relationships whose Id is none of the ids, order kept
RelsWithout(rels, ids) ==
    IF rels = <<>> THEN <<>>
    ELSE IF rels[1].Id \in ids THEN RelsWithout(Tail(rels), ids)
         ELSE <<rels[1]>> \o RelsWithout(Tail(rels), ids)

\* C18: the layout strip_gamma_from_layout returns is the one it was given
\* without exactly the p:pic elements that have an a:hlinkClick whose r:id is
\* the Id of a hyperlink relationship to gamma.app (any letter case), and the
\* rels part it returns is the one it was given without those hyperlink
\* relationships and without the relationships whose Id is the r:embed of a
\* removed picture's blip; every other element and relationship is kept, in
\* its original order.
C18_PicturesAndRelsRemoved ==
    xpc = "stripped" =>
        LET tree0 == archive0[1].layout.tree
            rels0 == archive0[1].rels.tree
            ids == GammaRelIds(rels0)
        IN /\ stripResults[1].layout.tree = Pruned(tree0, ids)
           /\ stripResults[1].rels.tree =
                 RelsWithout(rels0, ids \cup RemovedEmbeds(tree0, ids))
           /\ stripResults[1].rels.present = archive0[1].rels.present

\* the second link of a picture and a picture inside a group match; two of
\* five relationships stay
C18_Witness ==
    /\ xpc = "stripped"
    /\ archive0[1].layout.tree = <<TwoLinkPic, Group>>
    /\ archive0[1].rels = MixedRels
    /\ stripResults[1].layout.tree =
          <<Shape("grpSp", <<>>, <<>>, <<Sp, OtherPic>>)>>
    /\ Len(stripResults[1].rels.tree) = 2
    /\ stripResults[1].rels.tree[1].Id = "rId3"
    /\ stripResults[1].rels.tree[2].Id = "rId5"

-----------------------------------------------------------------------------
(* Configuration is checked before any I/O *)

\* the remover's variable is unset or empty, or names no existing file
BadRemoverConfig == menv.isNone \/ menv.str = "" \/ ~mexists

\* the e-mail address or the password is missing or empty
BadCredentials ==
    \/ eemail.isNone \/ eemail.str = ""
    \/ epassword.isNone \/ epassword.str = ""

\* C19: a remover's main whose environment variable is unset or empty, or
\* names a path that does not exist, never reads or writes the target file
\* and exits with status 1; export_applied_jobs given an empty e-mail or
\* password never creates a browser driver nor starts any network or file
\* operation, and leaves with ValueError.
C19_ConfigRejectedBeforeIO ==
    /\ BadRemoverConfig
          => /\ mio = <<>>
             /\ mpc = "exited" => mexit = 1
             /\ mpc \in {"env", "exists", "exited"}
    /\ BadCredentials
          => /\ eio = <<>>
             /\ edriver = "None"
             /\ epc = "done" => eresult = "ValueError"
             /\ epc \in {"check", "done"}

\* the main has exited on a path that does not exist, and the export has
\* raised on an empty password
C19_Witness ==
    /\ mpc = "exited"
    /\ TruthOf(menv)
    /\ ~mexists
    /\ mexit = 1
    /\ epc = "done"
    /\ TruthOf(eemail)
    /\ epassword = StrOf("")
    /\ eresult = "ValueError"

-----------------------------------------------------------------------------
(* download_and_create_pdf *)

\* the positions of the img tags whose image is to be downloaded: those with
\* a wp-image class and a src
WantedTags == {n \in 1..Len(dtags) : /\ dtags[n].classes \cap {"wp-image-12"} # {}
                                     /\ dtags[n].src # ""}

\* the tags of the requests sent for images, in the order sent
RequestedTags == [x \in 1..(Len(drequests) - 1) |-> drequests[x + 1].tag]

\* the tags of the images downloaded so far, in the order kept
DownloadedTags == [x \in 1..Len(dimages) |-> dimages[x].tag]

Increasing(seq) == \A x, y \in 1..Len(seq) : x < y => seq[x] < seq[y]

\* C20: a failed page fetch ends the call with no image requested and no PDF;
\* each wanted img tag is requested at most once, in page order, whatever
\* failed before it, and all of them have been requested when the call is
\* over; the downloaded images are a subsequence of the requested ones; the
\* PDF is saved exactly when at least one image was downloaded, and a saved
\* PDF holds exactly the downloaded images in the order of their img tags.
C20_DownloadFailuresAreLocal ==
    /\ dpagefailed
          => /\ Len(drequests) = 1
             /\ dpdf = NoPdf
             /\ dresult = "returned"
    /\ drequests # <<>>
          => /\ drequests[1].kind = "page"
             /\ \A x \in 1..Len(RequestedTags) :
                   /\ drequests[x + 1].kind = "image"
                   /\ RequestedTags[x] \in WantedTags
                   /\ drequests[x + 1].src = dtags[RequestedTags[x]].src
             /\ Increasing(RequestedTags)
    /\ Increasing(DownloadedTags)
    /\ \A x \in 1..Len(dimages) :
          \E y \in 1..Len(RequestedTags) : RequestedTags[y] = dimages[x].tag
    /\ (dpc = "done" /\ ~dpagefailed)
          => /\ {RequestedTags[x] : x \in 1..Len(RequestedTags)} = WantedTags
             /\ (dpdf # NoPdf) <=> (dimages # <<>>)
             /\ dresult = "returned"
                   => \/ dimages = <<>> /\ dpdf = NoPdf
                      \/ dimages # <<>>
                            /\ dpdf = [state |-> "complete", images |-> dimages]
    /\ dpc # "done" => dpdf = NoPdf

\* three wanted images, the second failed, the PDF holds the first and third
C20_Witness ==
    /\ dpc = "done"
    /\ dresult = "returned"
    /\ Len(dtags) = 3
    /\ WantedTags = {1, 2, 3}
    /\ dtags[1].src = dtags[3].src
    /\ Len(drequests) = 4
    /\ dpdf.state = "complete"
    /\ DownloadedTags = <<1, 3>>
    /\ dpdf.images[2].mode = "RGB"

-----------------------------------------------------------------------------
(* process_pdf: an image object shared by several pages *)

\* the resource names of page n that stand for an image which, as read, has
\* the target width and height
TargetNames0(n) ==
    IF pages0[n].hasResources /\ pages0[n].hasXObject
    THEN {m \in DOMAIN pages0[n].XObject :
            /\ images0[pages0[n].XObject[m]].Subtype = "/Image"
            /\ images0[pages0[n].XObject[m]].Width = 575
            /\ images0[pages0[n].XObject[m]].Height = 137}
    ELSE {}

\* C21: when process_pdf has returned, no page that names an image object of
\* the target dimensions still invokes it: the Do operators of that image
\* are gone from every such page, also when an earlier page names the same
\* object.
C21_SharedImageExcisedOnEveryPage ==
    ppc = "returned" =>
        \A n \in 1..Len(pages0) :
            TargetDos(pages[n].Contents.operations, TargetNames0(n)) = {}

-----------------------------------------------------------------------------
(* strip_gamma_from_layout: references into the rels part *)

RelIds(rels) == {rels[n].Id : n \in 1..Len(rels)} \ {""}

\* the relationship ids a shape refers to through r:id or r:embed
RefsOf(shape) ==
    ({shape.hlinks[n] : n \in 1..Len(shape.hlinks)}
        \cup {shape.embeds[n] : n \in 1..Len(shape.embeds)}) \ {""}

\* C22: after strip_gamma_from_layout has returned changed = True, no shape
\* left in the layout refers, through r:id or r:embed, to a relationship Id
\* that was in the rels part given and is not in the rels part returned.
C22_NoDanglingReference ==
    (xpc = "stripped" /\ stripResults[1].changed) =>
        \A sh \in AllShapes(stripResults[1].layout.tree) :
            RefsOf(sh) \cap (RelIds(archive0[1].rels.tree)
                                \ RelIds(stripResults[1].rels.tree)) = {}

-----------------------------------------------------------------------------
(* strip_gamma_from_layout: what changed means *)

\* a picture is removed from layout n of the archive as loaded
PictureRemoved(n) ==
    Pruned(archive0[n].layout.tree, GammaRelIds(archive0[n].rels.tree))
        # archive0[n].layout.tree

\* C23: strip_gamma_from_layout returns changed = True only for a layout
\* from which a picture was removed; for any other layout it returns the
\* layout bytes and rels bytes it was given with changed = False; the number
\* of layouts counted as cleaned is the number of layouts from which a
\* picture was removed.
C23_ChangedMeansPictureRemoved ==
    /\ \A n \in 1..Len(stripResults) :
          /\ stripResults[n].changed => PictureRemoved(n)
          /\ ~PictureRemoved(n)
                => /\ ~stripResults[n].changed
                   /\ stripResults[n].layout = archive0[n].layout
                   /\ stripResults[n].rels = archive0[n].rels
    /\ total_removed =
          Cardinality({n \in 1..Len(stripResults) : PictureRemoved(n)})

-----------------------------------------------------------------------------
(* Termination of strip_draw_commands *)

\* operators the outer scan has still to look at
ScanLeft == IF i < Len(ops) THEN Len(ops) - i ELSE 0

\* steps one outer iteration can still take before it advances or deletes
WalkLeft ==
    CASE spc = "scan" -> Len(ops) + 3
      [] spc = "back" -> (Len(ops) - i) + 2 + (j + 1)
      [] spc = "fwd" -> (Len(ops) - k) + 1
      [] OTHER -> 0

\* the positions the two walks read lie inside the list
WalksInside ==
    /\ spc = "back" => j \in -1..(i - 1) /\ i < Len(ops)
    /\ spc = "fwd" => k \in (i + 1)..Len(ops)
    /\ spc = "del" => 0 <= start /\ start <= i /\ i <= end /\ end < Len(ops)

\* C24: strip_draw_commands terminates: every step of a call lowers the pair
\* (operators left to scan, steps left in the iteration) in lexicographic
\* order, both are natural numbers, nothing follows the return; an outer
\* iteration that finds no hit advances i by one, one that finds a hit
\* deletes at least one operator, and both walks stay inside the list.
C24_StripTerminates ==
    [][/\ spc # "done"
       /\ WalksInside
       /\ ScanLeft \in Nat /\ WalkLeft \in Nat
       /\ \/ spc = "entry"
          \/ spc' = "done"
          \/ ScanLeft' < ScanLeft
          \/ ScanLeft' = ScanLeft /\ WalkLeft' < WalkLeft
       /\ (spc = "scan" /\ spc' = "scan") => (i' = i + 1 /\ ops' = ops)
       /\ spc = "del" => (Len(ops') < Len(ops) /\ ScanLeft' < ScanLeft)]_vars

C24_Witness ==
    /\ spc = "done"
    /\ Len(deleted) = 2
    /\ ops # <<>>
    /\ i = Len(ops)

-----------------------------------------------------------------------------
(* The browser driver of export_applied_jobs *)

\* C25: a driver that export_applied_jobs has created is quit exactly once
\* on every way out of the call, and never before the finally clause; when
\* build_driver raises, or the credentials are rejected, quit is never
\* called, and the exception of build_driver is the one that leaves the call.
C25_DriverQuitExactlyOnce ==
    /\ equits \in {0, 1}
    /\ edriver = "running" => (equits = 0 /\ epc # "done")
    /\ edriver = "quit" => (equits = 1 /\ epc = "done")
    /\ edriver = "None" => equits = 0
    /\ epc = "done" =>
          /\ edriver \in {"None", "quit"}
          /\ edriver = "None" =>
                eresult \in {"ValueError", "WebDriverException"}
          /\ (edriver = "None" /\ eio # <<>>) =>
                (eio = <<"browser">> /\ eresult = "WebDriverException")

\* the call is over with the driver quit once after serialization raised;
\* and the call is over with no quit after build_driver raised
C25_Witness ==
    /\ epc = "done"
    /\ edriver = "quit"
    /\ equits = 1
    /\ eresult = "AttributeError"

C25_WitnessNoDriver ==
    /\ epc = "done"
    /\ edriver = "None"
    /\ eio = <<"browser">>
    /\ equits = 0

=============================================================================
